---- MODULE Spec2Model ----
(***************************************************************************)
(* Data-access layer of chromadb-admin (src/src/lib/server/db.ts).         *)
(*                                                                         *)
(* The model has four parts that share the module:                         *)
(*   - the legacy (v1) facade with its collection-id cache: its operations *)
(*     that use or change the cache or the collections, one request after  *)
(*     another (Spec), fetchCollections next to the per-collection         *)
(*     operations (SpecList), and the per-collection operations run by     *)
(*     concurrent requests (SpecConcurrent);                               *)
(*   - the rename (updateCollection) of both facades, run alone against    *)
(*     backends with varied record contents (SpecRename);                  *)
(*   - the legacy transport v1Fetch with its redirect handling (SpecFetch);*)
(*   - the requests the reads of both facades build and what they return   *)
(*     for the backend's answers (SpecRead).                               *)
(*                                                                         *)
(* Granularity: JavaScript runs an async function without interruption up  *)
(* to its next pending await, so one action is one such stretch: it        *)
(* handles the response of the awaited backend call (whose effect on the   *)
(* backend is taken at that moment) and runs on to the issue of the next   *)
(* backend call.                                                           *)
(***************************************************************************)
EXTENDS Integers, Sequences, FiniteSets, TLC

\* ---- bounds of the model ------------------------------------------------
MaxPeriods == 1          \* the clock runs over MaxPeriods TTL periods
MaxId == 3               \* backend ids the backend can hand out
MaxRecords == 2          \* records of the collection that is renamed

\* ---- program constants --------------------------------------------------
CACHE_TTL_MS == 30000

\* ---- value universes ----------------------------------------------------
Procs == {"p1", "p2"}
Names == {"a", "b"}
PerCollectionOps ==
  {"fetchRecords", "fetchRecordDetail", "countRecord", "queryRecords",
   "queryRecordsText", "deleteRecord"}
NoId == 0
Null == 0
NoEntry == [id |-> NoId, timestamp |-> -1]
NoCredentials == [authType |-> "none", token |-> "", username |-> "", password |-> ""]
NoOp == [kind |-> "none", version |-> "v1", name |-> "a", newName |-> "a",
         recordId |-> 0, where |-> FALSE]
NoRecords == [ids |-> <<>>, documents |-> <<>>, embeddings |-> <<>>, metadatas |-> <<>>]
NoResolution == [src |-> "none", age |-> -1]
NoSnapshot == [colls |-> [n \in Names |-> NoId], store |-> [i \in 1..MaxId |-> <<>>]]

\* points of time at which the clock is sampled: each multiple of the TTL
\* and the millisecond before it
TimePoints == {t \in {k * CACHE_TTL_MS - e : k \in 0..MaxPeriods, e \in {0, 1}} : t >= 0}

RecIds == 1..MaxRecords
DocOf(i) == 10 + i
MetaOf(i) == 20 + i
EmbOf(i) == 30 + i

VARIABLES
  now,                \* Date.now()
  collectionIdCache,  \* key -> {id, timestamp}, NoEntry for a key the map does not hold
  colls,              \* backend: name -> id of the collection, NoId when absent
  store,              \* backend: id -> sequence of records of that collection
  nextId,             \* backend: next id to hand out
  pc,                 \* per request: the await it is suspended at
  op,                 \* per request: operation and arguments
  collectionId,       \* per request: local collectionId
  records,            \* per rename: local records (response of the full get)
  newCollectionId,    \* per rename: local newCollectionId
  calls,              \* per request: backend calls issued so far, in order
  result,             \* per request: outcome
  resolution,         \* per request: how the last name resolution obtained its id
  snapshot,           \* per rename: the backend's collections and records when the rename started
  listedAt,           \* history: name -> time the last list response holding it was cached
  invalidated,        \* history: names whose entry a rename deleted since they were last cached
  returnedAt,         \* history: name -> time fetchCollections last returned it
  cachedWith,         \* history: key -> credentials of the request that cached its entry
  fpc,                \* transport: where the v1Fetch call stands
  freq,               \* transport: url, auth and options of the v1Fetch call
  wire,               \* transport: the HTTP requests sent for the call, in order
  firstResponse,      \* transport: the response to the first request
  answers,            \* transport: the responses received for the call, in order
  fresult,            \* transport: what v1Fetch returned or threw
  rpc,                \* request shape: where the per-collection operation stands
  rop,                \* request shape: the operation and its arguments
  request,            \* request shape: what the operation passed to the backend call
  response,           \* request shape: what the backend call answered
  rresult,            \* request shape: what the operation returned or threw
  httpResponse,       \* route handler: status and body of the response it sent
  stored,             \* status bar: records the viewed collection holds
  currentPage,        \* status bar: currentPageAtom
  queryResult         \* status bar: data of useGetCollectionRecords for the current page

facadeVars == <<now, collectionIdCache, colls, store, nextId, pc, op, collectionId,
                records, newCollectionId, calls, result, resolution, snapshot,
                listedAt, invalidated, returnedAt, cachedWith>>
fetchVars == <<fpc, freq, wire, firstResponse, answers, fresult>>
requestVars == <<rpc, rop, request, response, rresult, httpResponse>>
statusBarVars == <<stored, currentPage, queryResult>>
vars == <<facadeVars, fetchVars, requestVars, statusBarVars>>

backendVars == <<colls, store, nextId>>
cacheVars == <<collectionIdCache, listedAt, invalidated>>

\* the transport before and after a v1Fetch call
NoLocation == "none"
NoBody == "none"
NoRequest == [url |-> "none", auth |-> [authType |-> "", token |-> "", username |-> "",
                                        password |-> ""], method |-> "GET", body |-> NoBody]
NoResponse == [status |-> 0, location |-> NoLocation]
NoResult == [kind |-> "none", status |-> 0, from |-> 0]

InitFetch ==
  /\ fpc = "idle"
  /\ freq = NoRequest
  /\ wire = <<>>
  /\ firstResponse = NoResponse
  /\ answers = <<>>
  /\ fresult = NoResult

\* no per-collection operation of the request-shape part is under way
NoArgs == [kind |-> "none"]
NoParams == [call |-> "none"]
NoAnswer == [answer |-> "none"]
NoReturn == [kind |-> "none"]
NoHttpResponse == [status |-> 0]

InitRequest ==
  /\ rpc = "idle"
  /\ rop = NoArgs
  /\ request = NoParams
  /\ response = NoAnswer
  /\ rresult = NoReturn
  /\ httpResponse = NoHttpResponse

\* the status bar when it is mounted for a collection of n records: atom(1), and
\* no data yet
NoQueryResult == [data |-> "undefined"]

InitStatusBar(n) ==
  /\ stored = n
  /\ currentPage = 1
  /\ queryResult = NoQueryResult

\* ---- the cache ------------------------------------------------------------

\* the connection every request of the model uses
ConnectionString == "http://host:8000"
Tenant == "tenant"
Database == "db"

collectionCacheKey(connectionString, tenant, database, collectionName) ==
  connectionString \o ":" \o tenant \o ":" \o database \o ":" \o collectionName

KeyOf(collectionName) == collectionCacheKey(ConnectionString, Tenant, Database, collectionName)
Keys == {KeyOf(n) : n \in Names}

FreshLeq(entry, t) == entry # NoEntry /\ t - entry.timestamp <= CACHE_TTL_MS
FreshNoTtl(entry, t) == entry # NoEntry
Fresh(entry, t) == entry # NoEntry /\ t - entry.timestamp < CACHE_TTL_MS

IdInOrAny(collections, name) ==
  IF \E c \in collections : c.name = name
  THEN (CHOOSE c \in collections : c.name = name).id
  ELSE IF collections # {} THEN (CHOOSE c \in collections : TRUE).id ELSE NoId
\* collections.find(c => c.name === collectionName)
IdIn(collections, name) ==
  IF \E c \in collections : c.name = name
  THEN (CHOOSE c \in collections : c.name = name).id
  ELSE NoId

\* new Error(`Collection '${collectionName}' not found`)
CollectionNotFound(collectionName) == "Collection '" \o collectionName \o "' not found"

\* the entries of the collections of a list response, by key
Listed(collections, k) == {c \in collections : KeyOf(c.name) = k}

CacheFirstOnly(cache, collections, t) ==
  LET one == IF collections = {} THEN {} ELSE {CHOOSE c \in collections : TRUE}
  IN [k \in DOMAIN cache |->
        IF Listed(one, k) # {}
        THEN [id |-> (CHOOSE c \in Listed(one, k) : TRUE).id, timestamp |-> t]
        ELSE cache[k]]
CacheAllOneId(cache, collections, t) ==
  [k \in DOMAIN cache |->
     IF Listed(collections, k) # {}
     THEN [id |-> (CHOOSE c \in collections : TRUE).id, timestamp |-> t]
     ELSE cache[k]]
CacheAllKeepOld(cache, collections, t) ==
  [k \in DOMAIN cache |->
     IF Listed(collections, k) # {} /\ cache[k] = NoEntry
     THEN [id |-> (CHOOSE c \in Listed(collections, k) : TRUE).id, timestamp |-> t]
     ELSE cache[k]]
CacheAllPruning(cache, collections, t) ==
  [k \in DOMAIN cache |->
     IF Listed(collections, k) # {}
     THEN [id |-> (CHOOSE c \in Listed(collections, k) : TRUE).id, timestamp |-> t]
     ELSE NoEntry]
\* for (const c of collections) collectionIdCache.set(key of c.name, {id, timestamp})
CacheAll(cache, collections, t) ==
  [k \in DOMAIN cache |->
     IF Listed(collections, k) # {}
     THEN [id |-> (CHOOSE c \in Listed(collections, k) : TRUE).id, timestamp |-> t]
     ELSE cache[k]]

\* ---- the backend ----------------------------------------------------------

Live(id) == id # NoId /\ \E n \in Names : colls[n] = id

\* response of GET /api/v1/collections
ListResponse == {[name |-> n, id |-> colls[n]] : n \in {m \in Names : colls[m] # NoId}}

RECURSIVE Without(_, _)
Without(s, rid) ==
  IF s = <<>> THEN <<>>
  ELSE IF Head(s).id = rid THEN Without(Tail(s), rid)
       ELSE <<Head(s)>> \o Without(Tail(s), rid)

\* ---- the log of backend calls of a request --------------------------------

Issue(log, call) == Append(log, [call |-> call, outcome |-> "pending"])
Settle(log, ok) == [log EXCEPT ![Len(log)].outcome = IF ok THEN "ok" ELSE "failed"]

\* ---- per-collection operations of the legacy facade ------------------------

CallOf(o) ==
  CASE o.kind = "fetchRecords" -> "get"
    [] o.kind = "fetchRecordDetail" -> "get"
    [] o.kind = "countRecord" -> IF o.where THEN "get" ELSE "count"
    [] o.kind = "queryRecords" -> "query"
    [] o.kind = "queryRecordsText" -> "get"
    [] o.kind = "deleteRecord" -> "delete"
    [] o.kind = "updateCollection" -> "get"

WaitOf(o) == IF o.kind = "updateCollection" THEN "get_wait" ELSE "call_wait"

Ops ==
  {[kind |-> k, version |-> "v1", name |-> n, newName |-> n, recordId |-> 0, where |-> FALSE] :
      k \in PerCollectionOps \ {"deleteRecord"}, n \in Names}
  \cup {[kind |-> "countRecord", version |-> "v1", name |-> n, newName |-> n,
         recordId |-> 0, where |-> TRUE] : n \in Names}
  \cup {[kind |-> "deleteRecord", version |-> "v1", name |-> n, newName |-> n,
         recordId |-> r, where |-> FALSE] : n \in Names, r \in RecIds}

Renames(v) ==
  {[kind |-> "updateCollection", version |-> v, name |-> n, newName |-> m,
    recordId |-> 0, where |-> FALSE] : n \in Names, m \in Names}

V1BeginCoalesced(p, o) ==
  /\ pc[p] = "idle"
  /\ op' = [op EXCEPT ![p] = o]
  /\ result' = [result EXCEPT ![p] = "none"]
  /\ snapshot' = [snapshot EXCEPT ![p] =
                    IF o.kind = "updateCollection"
                    THEN [colls |-> colls, store |-> store] ELSE NoSnapshot]
  /\ LET cached == collectionIdCache[collectionCacheKey(ConnectionString, Tenant, Database, o.name)]
         age == IF cached = NoEntry THEN -1 ELSE now - cached.timestamp
     IN IF Fresh(cached, now)
        THEN /\ collectionId' = [collectionId EXCEPT ![p] = cached.id]
             /\ resolution' = [resolution EXCEPT ![p] = [src |-> "cache", age |-> age]]
             /\ calls' = [calls EXCEPT ![p] = Issue(<<>>, CallOf(o))]
             /\ pc' = [pc EXCEPT ![p] = WaitOf(o)]
        ELSE /\ resolution' = [resolution EXCEPT ![p] = [src |-> "none", age |-> age]]
             /\ calls' = [calls EXCEPT ![p] =
                            IF \E q \in Procs \ {p} : pc[q] = "list_wait"
                            THEN Issue(<<>>, "list_shared") ELSE Issue(<<>>, "list")]
             /\ pc' = [pc EXCEPT ![p] = "list_wait"]
             /\ UNCHANGED collectionId
  /\ UNCHANGED <<fetchVars, requestVars, statusBarVars, returnedAt, cachedWith, now, backendVars, cacheVars, records, newCollectionId>>
\* v1GetCollectionId up to its first await: a hit returns the cached id and the
\* caller issues its backend call; a miss issues the list call
V1Begin(p, o) ==
  /\ pc[p] = "idle"
  /\ op' = [op EXCEPT ![p] = o]
  /\ result' = [result EXCEPT ![p] = "none"]
  /\ snapshot' = [snapshot EXCEPT ![p] =
                    IF o.kind = "updateCollection"
                    THEN [colls |-> colls, store |-> store] ELSE NoSnapshot]
  /\ LET cached == collectionIdCache[collectionCacheKey(ConnectionString, Tenant, Database, o.name)]
         age == IF cached = NoEntry THEN -1 ELSE now - cached.timestamp
     IN IF Fresh(cached, now)
        THEN /\ collectionId' = [collectionId EXCEPT ![p] = cached.id]
             /\ resolution' = [resolution EXCEPT ![p] = [src |-> "cache", age |-> age]]
             /\ calls' = [calls EXCEPT ![p] = Issue(<<>>, CallOf(o))]
             /\ pc' = [pc EXCEPT ![p] = WaitOf(o)]
        ELSE /\ resolution' = [resolution EXCEPT ![p] = [src |-> "none", age |-> age]]
             /\ calls' = [calls EXCEPT ![p] = Issue(<<>>, "list")]
             /\ pc' = [pc EXCEPT ![p] = "list_wait"]
             /\ UNCHANGED collectionId
  /\ UNCHANGED <<fetchVars, requestVars, statusBarVars, returnedAt, cachedWith, now, backendVars, cacheVars, records, newCollectionId>>

V1Start(p) == \E o \in Ops : V1Begin(p, o)

\* v1GetCollectionId after the list call, then the caller's backend call
V1ListRecv(p) ==
  /\ pc[p] = "list_wait"
  /\ \E ok \in BOOLEAN :
       IF ok
       THEN LET collections == ListResponse
                id == IdIn(collections, op[p].name)
            IN /\ collectionIdCache' = CacheAll(collectionIdCache, collections, now)
               /\ listedAt' = [n \in Names |->
                                 IF IdIn(collections, n) # NoId THEN now ELSE listedAt[n]]
               /\ invalidated' = {n \in invalidated : IdIn(collections, n) = NoId}
               /\ IF id # NoId
                  THEN /\ collectionId' = [collectionId EXCEPT ![p] = id]
                       /\ resolution' = [resolution EXCEPT ![p].src = "list"]
                       /\ calls' = [calls EXCEPT ![p] = Issue(Settle(@, TRUE), CallOf(op[p]))]
                       /\ pc' = [pc EXCEPT ![p] = WaitOf(op[p])]
                       /\ UNCHANGED result
                  ELSE /\ result' = [result EXCEPT ![p] = CollectionNotFound(op[p].name)]
                       /\ calls' = [calls EXCEPT ![p] = Settle(@, TRUE)]
                       /\ pc' = [pc EXCEPT ![p] = "done"]
                       /\ UNCHANGED <<collectionId, resolution>>
       ELSE /\ result' = [result EXCEPT ![p] = "TransportError"]
            /\ calls' = [calls EXCEPT ![p] = Settle(@, FALSE)]
            /\ pc' = [pc EXCEPT ![p] = "done"]
            /\ UNCHANGED <<cacheVars, collectionId, resolution>>
  /\ UNCHANGED <<fetchVars, requestVars, statusBarVars, returnedAt, cachedWith, now, backendVars, op, records, newCollectionId, snapshot>>

V1CallRecvEvicting(p) ==
  /\ pc[p] = "call_wait"
  /\ \E ok \in BOOLEAN :
       /\ ok => Live(collectionId[p])
       /\ result' = [result EXCEPT ![p] = IF ok THEN "success" ELSE "TransportError"]
       /\ calls' = [calls EXCEPT ![p] = Settle(@, ok)]
       /\ store' = IF ok /\ op[p].kind = "deleteRecord"
                   THEN [store EXCEPT ![collectionId[p]] = Without(@, op[p].recordId)]
                   ELSE store
       /\ collectionIdCache' = IF ok THEN collectionIdCache
                                ELSE [collectionIdCache EXCEPT ![KeyOf(op[p].name)] = NoEntry]
  /\ pc' = [pc EXCEPT ![p] = "done"]
  /\ UNCHANGED <<fetchVars, requestVars, statusBarVars, returnedAt, cachedWith, now, colls, nextId, listedAt, invalidated, op, collectionId,
                 records, newCollectionId, resolution, snapshot>>
\* the response of the per-collection call
V1CallRecv(p) ==
  /\ pc[p] = "call_wait"
  /\ \E ok \in BOOLEAN :
       /\ ok => Live(collectionId[p])
       /\ result' = [result EXCEPT ![p] = IF ok THEN "success" ELSE "TransportError"]
       /\ calls' = [calls EXCEPT ![p] = Settle(@, ok)]
       /\ store' = IF ok /\ op[p].kind = "deleteRecord"
                   THEN [store EXCEPT ![collectionId[p]] = Without(@, op[p].recordId)]
                   ELSE store
  /\ pc' = [pc EXCEPT ![p] = "done"]
  /\ UNCHANGED <<fetchVars, requestVars, statusBarVars, returnedAt, cachedWith, now, colls, nextId, cacheVars, op, collectionId, records,
                 newCollectionId, resolution, snapshot>>

\* the caller takes the outcome; the request's locals are gone
Return(p) ==
  /\ pc[p] = "done"
  /\ pc' = [pc EXCEPT ![p] = "idle"]
  /\ op' = [op EXCEPT ![p] = NoOp]
  /\ collectionId' = [collectionId EXCEPT ![p] = NoId]
  /\ newCollectionId' = [newCollectionId EXCEPT ![p] = NoId]
  /\ records' = [records EXCEPT ![p] = NoRecords]
  /\ calls' = [calls EXCEPT ![p] = <<>>]
  /\ result' = [result EXCEPT ![p] = "none"]
  /\ resolution' = [resolution EXCEPT ![p] = NoResolution]
  /\ snapshot' = [snapshot EXCEPT ![p] = NoSnapshot]
  /\ UNCHANGED <<fetchVars, requestVars, statusBarVars, returnedAt, cachedWith, now, backendVars, cacheVars>>

\* ---- deleteCollection of the legacy facade: addressed by name ---------------

V1DeleteCollectionStartListing(p) ==
  /\ pc[p] = "idle"
  /\ \E n \in Names :
       op' = [op EXCEPT ![p] = [kind |-> "deleteCollection", version |-> "v1", name |-> n,
                                newName |-> n, recordId |-> 0, where |-> FALSE]]
  /\ calls' = [calls EXCEPT ![p] = Issue(Settle(Issue(<<>>, "list"), TRUE), "delete_collection")]
  /\ pc' = [pc EXCEPT ![p] = "delcoll_wait"]
  /\ UNCHANGED <<fetchVars, requestVars, statusBarVars, returnedAt, cachedWith, now, backendVars, cacheVars, collectionId, records, newCollectionId,
                 result, resolution, snapshot>>
V1DeleteCollectionStart(p) ==
  /\ pc[p] = "idle"
  /\ \E n \in Names :
       op' = [op EXCEPT ![p] = [kind |-> "deleteCollection", version |-> "v1", name |-> n,
                                newName |-> n, recordId |-> 0, where |-> FALSE]]
  /\ calls' = [calls EXCEPT ![p] = Issue(<<>>, "delete_collection")]
  /\ pc' = [pc EXCEPT ![p] = "delcoll_wait"]
  /\ UNCHANGED <<fetchVars, requestVars, statusBarVars, returnedAt, cachedWith, now, backendVars, cacheVars, collectionId, records, newCollectionId,
                 result, resolution, snapshot>>

\* the backend drops the collection of that name and its records
DropCollection(name) ==
  /\ colls' = [colls EXCEPT ![name] = NoId]
  /\ store' = [store EXCEPT ![colls[name]] = <<>>]
  /\ UNCHANGED nextId

V1DeleteCollectionRecvInvalidating(p) ==
  /\ pc[p] = "delcoll_wait"
  /\ \E ok \in BOOLEAN :
       /\ ok => colls[op[p].name] # NoId
       /\ IF ok THEN DropCollection(op[p].name) ELSE UNCHANGED backendVars
       /\ calls' = [calls EXCEPT ![p] = Settle(@, ok)]
       /\ result' = [result EXCEPT ![p] = IF ok THEN "success" ELSE "TransportError"]
       /\ collectionIdCache' = IF ok THEN [collectionIdCache EXCEPT ![KeyOf(op[p].name)] = NoEntry]
                                ELSE collectionIdCache
  /\ pc' = [pc EXCEPT ![p] = "done"]
  /\ UNCHANGED <<fetchVars, requestVars, statusBarVars, returnedAt, cachedWith, now, listedAt, invalidated, op, collectionId,
                 records, newCollectionId, resolution, snapshot>>
V1DeleteCollectionRecv(p) ==
  /\ pc[p] = "delcoll_wait"
  /\ \E ok \in BOOLEAN :
       /\ ok => colls[op[p].name] # NoId
       /\ IF ok THEN DropCollection(op[p].name) ELSE UNCHANGED backendVars
       /\ calls' = [calls EXCEPT ![p] = Settle(@, ok)]
       /\ result' = [result EXCEPT ![p] = IF ok THEN "success" ELSE "TransportError"]
  /\ pc' = [pc EXCEPT ![p] = "done"]
  /\ UNCHANGED <<fetchVars, requestVars, statusBarVars, returnedAt, cachedWith, now, cacheVars, op, collectionId, records, newCollectionId,
                 resolution, snapshot>>

\* deleteCollection of the current facade: client.deleteCollection({ name })
V2DeleteCollectionStart(p) ==
  /\ pc[p] = "idle"
  /\ \E n \in Names :
       op' = [op EXCEPT ![p] = [kind |-> "deleteCollection", version |-> "v2", name |-> n,
                                newName |-> n, recordId |-> 0, where |-> FALSE]]
  /\ calls' = [calls EXCEPT ![p] = Issue(<<>>, "delete_collection")]
  /\ pc' = [pc EXCEPT ![p] = "v2_delcoll_wait"]
  /\ UNCHANGED <<fetchVars, requestVars, statusBarVars, returnedAt, cachedWith, now, backendVars, cacheVars, collectionId, records, newCollectionId,
                 result, resolution, snapshot>>

V2DeleteCollectionRecv(p) ==
  /\ pc[p] = "v2_delcoll_wait"
  /\ \E ok \in BOOLEAN :
       /\ ok => colls[op[p].name] # NoId
       /\ IF ok THEN DropCollection(op[p].name) ELSE UNCHANGED backendVars
       /\ calls' = [calls EXCEPT ![p] = Settle(@, ok)]
       /\ result' = [result EXCEPT ![p] = IF ok THEN "success" ELSE "TransportError"]
  /\ pc' = [pc EXCEPT ![p] = "done"]
  /\ UNCHANGED <<fetchVars, requestVars, statusBarVars, returnedAt, cachedWith, now, cacheVars, op, collectionId, records, newCollectionId,
                 resolution, snapshot>>

\* ---- fetchCollections of the legacy facade: the list call, names returned ------

V1FetchCollectionsStart(p) ==
  /\ pc[p] = "idle"
  /\ op' = [op EXCEPT ![p] = [kind |-> "fetchCollections", version |-> "v1", name |-> "a",
                              newName |-> "a", recordId |-> 0, where |-> FALSE]]
  /\ calls' = [calls EXCEPT ![p] = Issue(<<>>, "list")]
  /\ pc' = [pc EXCEPT ![p] = "collections_wait"]
  /\ UNCHANGED <<fetchVars, requestVars, statusBarVars, returnedAt, cachedWith, now, backendVars, cacheVars, collectionId, records,
                 newCollectionId, result, resolution, snapshot>>

\* collections.map(c => c.name) is returned; nothing else is done with the response
V1FetchCollectionsRecv(p) ==
  /\ pc[p] = "collections_wait"
  /\ \E ok \in BOOLEAN :
       /\ calls' = [calls EXCEPT ![p] = Settle(@, ok)]
       /\ result' = [result EXCEPT ![p] = IF ok THEN "success" ELSE "TransportError"]
       /\ returnedAt' = IF ok
                        THEN [n \in Names |-> IF IdIn(ListResponse, n) # NoId THEN now
                                              ELSE returnedAt[n]]
                        ELSE returnedAt
  /\ pc' = [pc EXCEPT ![p] = "done"]
  /\ UNCHANGED <<fetchVars, requestVars, statusBarVars, cachedWith, now, backendVars, cacheVars, op, collectionId, records,
                 newCollectionId, resolution, snapshot>>

\* ---- rename (updateCollection) ------------------------------------------------

\* the parallel arrays of a get response with documents, embeddings, metadatas
ToArrays(s) ==
  [ids |-> [i \in 1..Len(s) |-> s[i].id],
   documents |-> [i \in 1..Len(s) |-> s[i].document],
   embeddings |-> [i \in 1..Len(s) |-> s[i].embedding],
   metadatas |-> [i \in 1..Len(s) |-> s[i].metadata]]

At(arr, i) == IF i <= Len(arr) THEN arr[i] ELSE Null

\* the records the backend stores for an add request: entry i of each array
\* belongs to ids[i]
FromArrays(r) ==
  [i \in 1..Len(r.ids) |->
     [id |-> r.ids[i], document |-> At(r.documents, i),
      metadata |-> At(r.metadatas, i), embedding |-> At(r.embeddings, i)]]

NotNull(x) == x # Null

\* body of the legacy add request: the fetched arrays as they are
V1AddBody(r) == r

\* parameters of the current-protocol add: null entries filtered out of
\* documents, embeddings and metadatas
V2AddParams(r) ==
  [ids |-> r.ids,
   documents |-> SelectSeq(r.documents, NotNull),
   embeddings |-> SelectSeq(r.embeddings, NotNull),
   metadatas |-> SelectSeq(r.metadatas, NotNull)]

AddBody(v, r) == IF v = "v1" THEN V1AddBody(r) ELSE V2AddParams(r)

\* the awaited backend steps of a rename, in program order
RenameStepsDeleteFirst == <<"get", "delete_collection", "create", "add">>
RenameStepsAddLast == <<"get", "create", "delete_collection", "add">>
RenameSteps == <<"get", "create", "add", "delete_collection">>

StepIndex(step) == CHOOSE i \in 1..Len(RenameSteps) : RenameSteps[i] = step

\* the step after position i; the add is skipped when nothing was fetched
RECURSIVE StepAfter(_, _)
StepAfter(i, r) ==
  IF i >= Len(RenameSteps) THEN "return"
  ELSE IF RenameSteps[i + 1] = "add" /\ Len(r.ids) = 0 THEN StepAfter(i + 1, r)
       ELSE RenameSteps[i + 1]

WaitPc(v, step) == IF v = "v1" THEN step \o "_wait" ELSE "v2_" \o step \o "_wait"

\* the rename goes on after its step succeeded: issue the next step or return
Proceed(p, step, r) ==
  LET nxt == StepAfter(StepIndex(step), r)
  IN IF nxt = "return"
     THEN /\ result' = [result EXCEPT ![p] = "success"]
          /\ pc' = [pc EXCEPT ![p] = "done"]
          /\ calls' = [calls EXCEPT ![p] = Settle(@, TRUE)]
     ELSE /\ calls' = [calls EXCEPT ![p] = Issue(Settle(@, TRUE), nxt)]
          /\ pc' = [pc EXCEPT ![p] = WaitPc(op[p].version, nxt)]
          /\ UNCHANGED result

FailSwallowed(p) ==
  /\ result' = [result EXCEPT ![p] = "success"]
  /\ pc' = [pc EXCEPT ![p] = "done"]
  /\ calls' = [calls EXCEPT ![p] = Settle(@, FALSE)]
FailRetried(p) ==
  /\ calls' = [calls EXCEPT ![p] =
                 IF Len(@) < 6 THEN Issue(Settle(@, FALSE), @[Len(@)].call) ELSE Settle(@, FALSE)]
  /\ pc' = [pc EXCEPT ![p] = IF Len(calls[p]) < 6 THEN @ ELSE "done"]
  /\ result' = [result EXCEPT ![p] = IF Len(calls[p]) < 6 THEN @ ELSE "TransportError"]
\* the awaited call failed: the error propagates
Fail(p) ==
  /\ result' = [result EXCEPT ![p] = "TransportError"]
  /\ pc' = [pc EXCEPT ![p] = "done"]
  /\ calls' = [calls EXCEPT ![p] = Settle(@, FALSE)]

\* backend effects of the steps
CreateOk(name) == colls[name] = NoId /\ nextId <= MaxId
CreateCollection(name) ==
  /\ colls' = [colls EXCEPT ![name] = nextId]
  /\ nextId' = nextId + 1
  /\ UNCHANGED store
AddRecords(id, body) ==
  /\ store' = [store EXCEPT ![id] = @ \o FromArrays(body)]
  /\ UNCHANGED <<colls, nextId>>

V1RenameStart(p) == \E o \in Renames("v1") : V1Begin(p, o)

V1RenameGetRecv(p) ==
  /\ pc[p] = "get_wait"
  /\ \E ok \in BOOLEAN :
       /\ ok => Live(collectionId[p])
       /\ IF ok
          THEN LET r == ToArrays(store[collectionId[p]])
               IN /\ records' = [records EXCEPT ![p] = r]
                  /\ Proceed(p, "get", r)
          ELSE Fail(p) /\ UNCHANGED records
  /\ UNCHANGED <<fetchVars, requestVars, statusBarVars, returnedAt, cachedWith, now, backendVars, cacheVars, op, collectionId, newCollectionId,
                 resolution, snapshot>>

\* the create succeeded: invalidate the old name, resolve the new name
V1RenameCreateRecv(p) ==
  /\ pc[p] = "create_wait"
  /\ \E ok \in BOOLEAN :
       /\ ok => CreateOk(op[p].newName)
       /\ IF ok
          THEN LET oldCacheKey == collectionCacheKey(ConnectionString, Tenant, Database,
                                                     op[p].name)
                   cache1 == [collectionIdCache EXCEPT ![oldCacheKey] = NoEntry]
                   cached == cache1[collectionCacheKey(ConnectionString, Tenant, Database,
                                                       op[p].newName)]
                   age == IF cached = NoEntry THEN -1 ELSE now - cached.timestamp
               IN /\ CreateCollection(op[p].newName)
                  /\ collectionIdCache' = cache1
                  /\ invalidated' = invalidated \cup {op[p].name}
                  /\ IF Fresh(cached, now)
                     THEN /\ newCollectionId' = [newCollectionId EXCEPT ![p] = cached.id]
                          /\ resolution' = [resolution EXCEPT ![p] =
                                              [src |-> "cache", age |-> age]]
                          /\ Proceed(p, "create", records[p])
                     ELSE /\ resolution' = [resolution EXCEPT ![p] =
                                              [src |-> "none", age |-> age]]
                          /\ calls' = [calls EXCEPT ![p] = Issue(Settle(@, TRUE), "list")]
                          /\ pc' = [pc EXCEPT ![p] = "newlist_wait"]
                          /\ UNCHANGED <<newCollectionId, result>>
          ELSE /\ Fail(p)
               /\ UNCHANGED <<backendVars, collectionIdCache, invalidated,
                              newCollectionId, resolution>>
  /\ UNCHANGED <<fetchVars, requestVars, statusBarVars, returnedAt, cachedWith, now, listedAt, op, collectionId, records, snapshot>>

\* v1GetCollectionId(newName) after its list call
V1RenameListRecv(p) ==
  /\ pc[p] = "newlist_wait"
  /\ \E ok \in BOOLEAN :
       IF ok
       THEN LET collections == ListResponse
                id == IdIn(collections, op[p].newName)
            IN /\ collectionIdCache' = CacheAll(collectionIdCache, collections, now)
               /\ listedAt' = [n \in Names |->
                                 IF IdIn(collections, n) # NoId THEN now ELSE listedAt[n]]
               /\ invalidated' = {n \in invalidated : IdIn(collections, n) = NoId}
               /\ IF id # NoId
                  THEN /\ newCollectionId' = [newCollectionId EXCEPT ![p] = id]
                       /\ resolution' = [resolution EXCEPT ![p].src = "list"]
                       /\ Proceed(p, "create", records[p])
                  ELSE /\ result' = [result EXCEPT ![p] = CollectionNotFound(op[p].newName)]
                       /\ calls' = [calls EXCEPT ![p] = Settle(@, TRUE)]
                       /\ pc' = [pc EXCEPT ![p] = "done"]
                       /\ UNCHANGED <<newCollectionId, resolution>>
       ELSE /\ Fail(p)
            /\ UNCHANGED <<cacheVars, newCollectionId, resolution>>
  /\ UNCHANGED <<fetchVars, requestVars, statusBarVars, returnedAt, cachedWith, now, backendVars, op, collectionId, records, snapshot>>

V1RenameAddRecv(p) ==
  /\ pc[p] = "add_wait"
  /\ \E ok \in BOOLEAN :
       /\ ok => Live(newCollectionId[p])
       /\ IF ok
          THEN /\ AddRecords(newCollectionId[p], AddBody("v1", records[p]))
               /\ Proceed(p, "add", records[p])
          ELSE Fail(p) /\ UNCHANGED backendVars
  /\ UNCHANGED <<fetchVars, requestVars, statusBarVars, returnedAt, cachedWith, now, cacheVars, op, collectionId, records, newCollectionId,
                 resolution, snapshot>>

V1RenameDeleteRecv(p) ==
  /\ pc[p] = "delete_collection_wait"
  /\ \E ok \in BOOLEAN :
       /\ ok => colls[op[p].name] # NoId
       /\ IF ok
          THEN /\ DropCollection(op[p].name)
               /\ Proceed(p, "delete_collection", records[p])
          ELSE Fail(p) /\ UNCHANGED backendVars
  /\ UNCHANGED <<fetchVars, requestVars, statusBarVars, returnedAt, cachedWith, now, cacheVars, op, collectionId, records, newCollectionId,
                 resolution, snapshot>>

\* ---- rename of the current-protocol facade -----------------------------------

V2RenameStartInvalidating(p) ==
  /\ pc[p] = "idle"
  /\ \E o \in Renames("v2") :
       /\ op' = [op EXCEPT ![p] = o]
       /\ collectionIdCache' = [collectionIdCache EXCEPT ![KeyOf(o.name)] = NoEntry]
  /\ result' = [result EXCEPT ![p] = "none"]
  /\ snapshot' = [snapshot EXCEPT ![p] = [colls |-> colls, store |-> store]]
  /\ calls' = [calls EXCEPT ![p] = Issue(<<>>, "get_collection")]
  /\ pc' = [pc EXCEPT ![p] = "v2_get_collection_wait"]
  /\ UNCHANGED <<fetchVars, requestVars, statusBarVars, returnedAt, cachedWith, now, backendVars, listedAt, invalidated,
                 collectionId, records, newCollectionId, resolution>>
V2RenameStart(p) ==
  /\ pc[p] = "idle"
  /\ \E o \in Renames("v2") : op' = [op EXCEPT ![p] = o]
  /\ result' = [result EXCEPT ![p] = "none"]
  /\ snapshot' = [snapshot EXCEPT ![p] = [colls |-> colls, store |-> store]]
  /\ calls' = [calls EXCEPT ![p] = Issue(<<>>, "get_collection")]
  /\ pc' = [pc EXCEPT ![p] = "v2_get_collection_wait"]
  /\ UNCHANGED <<fetchVars, requestVars, statusBarVars, returnedAt, cachedWith, now, backendVars, cacheVars, collectionId, records, newCollectionId,
                 resolution>>

\* client.getCollection({ name: oldName }) answered
V2RenameGetCollectionRecv(p) ==
  /\ pc[p] = "v2_get_collection_wait"
  /\ \E ok \in BOOLEAN :
       /\ ok => colls[op[p].name] # NoId
       /\ IF ok
          THEN /\ collectionId' = [collectionId EXCEPT ![p] = colls[op[p].name]]
               /\ calls' = [calls EXCEPT ![p] = Issue(Settle(@, TRUE), "get")]
               /\ pc' = [pc EXCEPT ![p] = "v2_get_wait"]
               /\ UNCHANGED result
          ELSE Fail(p) /\ UNCHANGED collectionId
  /\ UNCHANGED <<fetchVars, requestVars, statusBarVars, returnedAt, cachedWith, now, backendVars, cacheVars, op, records, newCollectionId,
                 resolution, snapshot>>

V2RenameGetRecv(p) ==
  /\ pc[p] = "v2_get_wait"
  /\ \E ok \in BOOLEAN :
       /\ ok => Live(collectionId[p])
       /\ IF ok
          THEN LET r == ToArrays(store[collectionId[p]])
               IN /\ records' = [records EXCEPT ![p] = r]
                  /\ Proceed(p, "get", r)
          ELSE Fail(p) /\ UNCHANGED records
  /\ UNCHANGED <<fetchVars, requestVars, statusBarVars, returnedAt, cachedWith, now, backendVars, cacheVars, op, collectionId, newCollectionId,
                 resolution, snapshot>>

V2RenameCreateRecv(p) ==
  /\ pc[p] = "v2_create_wait"
  /\ \E ok \in BOOLEAN :
       /\ ok => CreateOk(op[p].newName)
       /\ IF ok
          THEN /\ CreateCollection(op[p].newName)
               /\ newCollectionId' = [newCollectionId EXCEPT ![p] = nextId]
               /\ Proceed(p, "create", records[p])
          ELSE Fail(p) /\ UNCHANGED <<backendVars, newCollectionId>>
  /\ UNCHANGED <<fetchVars, requestVars, statusBarVars, returnedAt, cachedWith, now, cacheVars, op, collectionId, records, resolution, snapshot>>

V2RenameAddRecv(p) ==
  /\ pc[p] = "v2_add_wait"
  /\ \E ok \in BOOLEAN :
       /\ ok => Live(newCollectionId[p])
       /\ IF ok
          THEN /\ AddRecords(newCollectionId[p], AddBody("v2", records[p]))
               /\ Proceed(p, "add", records[p])
          ELSE Fail(p) /\ UNCHANGED backendVars
  /\ UNCHANGED <<fetchVars, requestVars, statusBarVars, returnedAt, cachedWith, now, cacheVars, op, collectionId, records, newCollectionId,
                 resolution, snapshot>>

V2RenameDeleteRecv(p) ==
  /\ pc[p] = "v2_delete_collection_wait"
  /\ \E ok \in BOOLEAN :
       /\ ok => colls[op[p].name] # NoId
       /\ IF ok
          THEN /\ DropCollection(op[p].name)
               /\ Proceed(p, "delete_collection", records[p])
          ELSE Fail(p) /\ UNCHANGED backendVars
  /\ UNCHANGED <<fetchVars, requestVars, statusBarVars, returnedAt, cachedWith, now, cacheVars, op, collectionId, records, newCollectionId,
                 resolution, snapshot>>

\* time passes
TickEvicting ==
  /\ \E t \in TimePoints :
       /\ t > now
       /\ now' = t
       /\ collectionIdCache' = [k \in DOMAIN collectionIdCache |->
                                  IF Fresh(collectionIdCache[k], t) THEN collectionIdCache[k]
                                  ELSE NoEntry]
  /\ UNCHANGED <<fetchVars, requestVars, statusBarVars, returnedAt, cachedWith, backendVars, listedAt, invalidated, pc, op,
                 collectionId, records, newCollectionId, calls, result, resolution, snapshot>>
Tick ==
  /\ \E t \in TimePoints : t > now /\ now' = t
  /\ UNCHANGED <<fetchVars, requestVars, statusBarVars, returnedAt, cachedWith, backendVars, cacheVars, pc, op, collectionId, records,
                 newCollectionId, calls, result, resolution, snapshot>>

\* ---- specifications of the legacy facade ------------------------------------

FullRecord(i) == [id |-> i, document |-> DocOf(i), metadata |-> MetaOf(i), embedding |-> EmbOf(i)]

InitRequests ==
  /\ pc = [p \in Procs |-> "idle"]
  /\ op = [p \in Procs |-> NoOp]
  /\ collectionId = [p \in Procs |-> NoId]
  /\ newCollectionId = [p \in Procs |-> NoId]
  /\ records = [p \in Procs |-> NoRecords]
  /\ calls = [p \in Procs |-> <<>>]
  /\ result = [p \in Procs |-> "none"]
  /\ resolution = [p \in Procs |-> NoResolution]
  /\ snapshot = [p \in Procs |-> NoSnapshot]

InitCache ==
  /\ now = 0
  /\ collectionIdCache = [k \in Keys |-> NoEntry]
  /\ listedAt = [n \in Names |-> -1]
  /\ invalidated = {}
  /\ returnedAt = [n \in Names |-> -1]
  /\ cachedWith = [k \in Keys |-> NoCredentials]

Init ==
  /\ InitFetch
  /\ InitRequest
  /\ InitStatusBar(0)
  /\ InitRequests
  /\ InitCache
  /\ colls \in {[n \in Names |-> IF n = "a" THEN 1 ELSE NoId],
                [n \in Names |-> IF n = "a" THEN 1 ELSE 2]}
  /\ store = [i \in 1..MaxId |-> IF i = 1 THEN <<FullRecord(1)>> ELSE <<>>]
  /\ nextId = IF colls["b"] = NoId THEN 2 ELSE 3

\* the legacy facade, one request after another
Solo == "p1"

Next ==
  \/ V1Start(Solo)
  \/ V1ListRecv(Solo)
  \/ V1CallRecv(Solo)
  \/ V1DeleteCollectionStart(Solo)
  \/ V1DeleteCollectionRecv(Solo)
  \/ V2DeleteCollectionStart(Solo)
  \/ V2DeleteCollectionRecv(Solo)
  \/ V1RenameStart(Solo)
  \/ V1RenameGetRecv(Solo)
  \/ V1RenameCreateRecv(Solo)
  \/ V1RenameListRecv(Solo)
  \/ V1RenameAddRecv(Solo)
  \/ V1RenameDeleteRecv(Solo)
  \/ Return(Solo)
  \/ Tick

Spec == Init /\ [][Next]_vars

\* fetchCollections and the per-collection operations of the legacy facade, one
\* request after another
NextList ==
  \/ V1FetchCollectionsStart(Solo)
  \/ V1FetchCollectionsRecv(Solo)
  \/ V1Start(Solo)
  \/ V1ListRecv(Solo)
  \/ V1CallRecv(Solo)
  \/ Return(Solo)
  \/ Tick

SpecList == Init /\ [][NextList]_vars

\* per-collection operations of the legacy facade, requests running concurrently
NextConcurrent ==
  \/ \E p \in Procs : V1Start(p)
  \/ \E p \in Procs : V1ListRecv(p)
  \/ \E p \in Procs : V1CallRecv(p)
  \/ \E p \in Procs : Return(p)
  \/ Tick

SpecConcurrent == Init /\ [][NextConcurrent]_vars

\* ---- specification of the rename, run alone ------------------------------------

\* a record of the old collection: document and metadata are optional
RecordChoices(i) ==
  {[id |-> i, document |-> d, metadata |-> m, embedding |-> EmbOf(i)] :
     d \in {Null, DocOf(i)}, m \in {Null, MetaOf(i)}}

Contents ==
  UNION {{s \in [1..k -> UNION {RecordChoices(i) : i \in RecIds}] :
            \A i \in 1..k : s[i].id = i} : k \in 0..MaxRecords}

Renamer == "p1"

InitRename ==
  /\ InitFetch
  /\ InitRequest
  /\ InitStatusBar(0)
  /\ InitRequests
  /\ InitCache
  /\ colls = [n \in Names |-> IF n = "a" THEN 1 ELSE NoId]
  /\ \E c \in Contents : store = [i \in 1..MaxId |-> IF i = 1 THEN c ELSE <<>>]
  /\ nextId = 2

NextRename ==
  \/ V1RenameStart(Renamer)
  \/ V1ListRecv(Renamer)
  \/ V1RenameGetRecv(Renamer)
  \/ V1RenameCreateRecv(Renamer)
  \/ V1RenameListRecv(Renamer)
  \/ V1RenameAddRecv(Renamer)
  \/ V1RenameDeleteRecv(Renamer)
  \/ V2RenameStart(Renamer)
  \/ V2RenameGetCollectionRecv(Renamer)
  \/ V2RenameGetRecv(Renamer)
  \/ V2RenameCreateRecv(Renamer)
  \/ V2RenameAddRecv(Renamer)
  \/ V2RenameDeleteRecv(Renamer)
  \/ Return(Renamer)
  \/ Tick

SpecRename == InitRename /\ [][NextRename]_vars
\* ---- the legacy transport: v1Fetch ---------------------------------------------

MaxFollow == 2           \* redirects the runtime follows for one fetch (bound)

Methods == {"GET", "POST", "DELETE"}
Statuses == {200, 301, 302, 303, 304, 307, 404, 500}

Auths ==
  {[authType |-> "token", token |-> "tok", username |-> "", password |-> ""],
   [authType |-> "token", token |-> "", username |-> "", password |-> ""],
   [authType |-> "basic", token |-> "", username |-> "usr", password |-> "pwd"],
   [authType |-> "basic", token |-> "", username |-> "", password |-> "pwd"],
   [authType |-> "", token |-> "", username |-> "", password |-> ""]}

\* Buffer.from(s).toString('base64'), kept symbolic
Base64(str) == "base64(" \o str \o ")"

\* the Authorization header, "" when there is none
v1HeadersByTypeOnly(auth) ==
  [ContentType |-> "application/json",
   Authorization |->
     IF auth.authType = "token"
     THEN "Bearer " \o auth.token
     ELSE IF auth.authType = "basic"
          THEN "Basic " \o Base64(auth.username \o ":" \o auth.password)
          ELSE ""]
v1Headers(auth) ==
  [ContentType |-> "application/json",
   Authorization |->
     IF auth.authType = "token" /\ auth.token # ""
     THEN "Bearer " \o auth.token
     ELSE IF auth.authType = "basic" /\ auth.username # ""
          THEN "Basic " \o Base64(auth.username \o ":" \o auth.password)
          ELSE ""]

\* the options the facade passes: GET without a body, POST with one, DELETE without
Requests ==
  {[url |-> "url", auth |-> a, method |-> m, body |-> IF m = "POST" THEN "json" ELSE NoBody] :
     a \in Auths, m \in Methods}


HttpRequest(url, method, headers, body, mode) ==
  [url |-> url, method |-> method, headers |-> headers, body |-> body, redirect |-> mode]

IsOk(status) == status >= 200 /\ status < 300

\* the status codes for which a fetch in mode 'follow' goes on to the Location
FollowedStatuses == {301, 302, 303, 307, 308}

\* method and body of the request the runtime sends when it follows a redirect
\* (POST becomes GET on 301 and 302, everything but GET becomes GET on 303)
FollowedMethod(status, method) ==
  IF (status \in {301, 302} /\ method = "POST") \/ (status = 303 /\ method # "GET")
  THEN "GET" ELSE method
FollowedBody(status, method, body) ==
  IF FollowedMethod(status, method) = method THEN body ELSE NoBody

\* the next hop, "none" when the chain of locations of the model ends
NextLocation(url) ==
  CASE url = "url" -> "loc1"
    [] url = "loc1" -> "loc2"
    [] url = "loc2" -> "loc3"
    [] OTHER -> NoLocation

\* response handling of v1Fetch: the body for a 2xx response, an error with
\* status and text otherwise; from is the position of the response whose
\* status and text the error carries or whose body is returned
OutcomeRedirectUnchecked(status, from) ==
  [kind |-> IF IsOk(status) \/ from > 1 THEN "json" ELSE "error", status |-> status,
   from |-> from]
Outcome(status, from) ==
  [kind |-> IF IsOk(status) THEN "json" ELSE "error", status |-> status, from |-> from]

\* v1Fetch is called: the first fetch, with redirect: 'manual'
FetchCall ==
  /\ fpc = "idle"
  /\ \E r \in Requests :
       /\ freq' = r
       /\ wire' = <<HttpRequest(r.url, r.method, v1Headers(r.auth), r.body, "manual")>>
  /\ fpc' = "first_wait"
  /\ firstResponse' = NoResponse
  /\ answers' = <<>>
  /\ fresult' = NoResult
  /\ UNCHANGED <<facadeVars, requestVars, statusBarVars>>

\* the first response: a 3xx with a Location is fetched again at the location with
\* the same options and headers (and the default redirect mode); anything else
\* is the response of the call
FirstResponse ==
  /\ fpc = "first_wait"
  /\ \E status \in Statuses, location \in {NoLocation, NextLocation(freq.url)} :
       /\ firstResponse' = [status |-> status, location |-> location]
       /\ answers' = <<[status |-> status, location |-> location]>>
       /\ IF status >= 300 /\ status < 400 /\ location # NoLocation
          THEN /\ wire' = Append(wire, HttpRequest(location, freq.method,
                                                   v1Headers(freq.auth), freq.body, "follow"))
               /\ fpc' = "redirect_wait"
               /\ UNCHANGED fresult
          ELSE /\ fresult' = Outcome(status, 1)
               /\ fpc' = "done"
               /\ UNCHANGED wire
  /\ UNCHANGED <<freq, facadeVars, requestVars, statusBarVars>>

Hops == Len(wire) - 2

\* a response to the second fetch: in mode 'follow' the runtime goes on to the
\* next Location by itself; any other response is the redirected response
RedirectedResponse ==
  /\ fpc = "redirect_wait"
  /\ LET last == wire[Len(wire)]
     IN \E status \in Statuses, location \in {NoLocation, NextLocation(last.url)} :
          /\ answers' = Append(answers, [status |-> status, location |-> location])
          /\ IF /\ last.redirect = "follow"
                /\ status \in FollowedStatuses
                /\ location # NoLocation
                /\ Hops < MaxFollow
             THEN /\ wire' = Append(wire, HttpRequest(location,
                                                      FollowedMethod(status, last.method),
                                                      last.headers,
                                                      FollowedBody(status, last.method, last.body),
                                                      "follow"))
                  /\ UNCHANGED <<fpc, fresult>>
             ELSE /\ fresult' = Outcome(status, Len(wire))
                  /\ fpc' = "done"
                  /\ UNCHANGED wire
  /\ UNCHANGED <<freq, firstResponse, facadeVars, requestVars, statusBarVars>>

FetchReturn ==
  /\ fpc = "done"
  /\ fpc' = "idle"
  /\ freq' = NoRequest
  /\ wire' = <<>>
  /\ firstResponse' = NoResponse
  /\ answers' = <<>>
  /\ fresult' = NoResult
  /\ UNCHANGED <<facadeVars, requestVars, statusBarVars>>

InitTransport ==
  /\ InitFetch
  /\ InitRequest
  /\ InitStatusBar(0)
  /\ InitRequests
  /\ InitCache
  /\ colls = [n \in Names |-> IF n = "a" THEN 1 ELSE NoId]
  /\ store = [i \in 1..MaxId |-> <<>>]
  /\ nextId = 2

NextFetch ==
  \/ FetchCall
  \/ FirstResponse
  \/ RedirectedResponse
  \/ FetchReturn

SpecFetch == InitTransport /\ [][NextFetch]_vars

\* ---- request and response of the per-collection reads, both facades --------------

MaxPage == 50            \* pages a list view asks for
MaxStored == 45          \* records of the collection that is read

PAGE_SIZE == 20
QUERY_K == 10

Undefined == "undefined"
Pages == 0..MaxPage
Wheres == {Undefined, "where"}
QueryVectors == {<<1, 2>>, <<3, 4, 5>>}
DetailIds == {1, MaxStored, MaxStored + 1}
ApiVersions == {"v1", "v2"}

Range(seq) == {seq[i] : i \in DOMAIN seq}
Min(a, b) == IF a < b THEN a ELSE b

\* JSON.stringify leaves out a where that is undefined
JSONStringify(obj) ==
  IF "where" \in DOMAIN obj /\ obj.where = Undefined
  THEN [f \in DOMAIN obj \ {"where"} |-> obj[f]]
  ELSE obj

\* the operations and their arguments, as the facades take them
FacadeCalls ==
  {[kind |-> "fetchCollections", apiVersion |-> v] : v \in ApiVersions} \cup
  {[kind |-> "fetchRecords", apiVersion |-> v, page |-> pg, where |-> w] :
      v \in ApiVersions, pg \in Pages, w \in Wheres}
  \cup {[kind |-> "fetchRecordDetail", apiVersion |-> v, recordId |-> r] :
           v \in ApiVersions, r \in DetailIds}
  \cup {[kind |-> "queryRecords", apiVersion |-> v, queryEmbeddings |-> q] :
           v \in ApiVersions, q \in QueryVectors}
  \cup {[kind |-> "queryRecordsText", apiVersion |-> v, queryTexts |-> r] :
           v \in ApiVersions, r \in DetailIds}
  \cup {[kind |-> "countRecord", apiVersion |-> v, where |-> w] :
           v \in ApiVersions, w \in Wheres}

\* what a caller passes for apiVersion: nothing, a version, or another string
Passed == {Undefined} \cup ApiVersions \cup {"v3", "V1", ""}

\* if (apiVersion === 'v1') the legacy facade, else the current one
FacadeIgnoringCase(apiVersion) == IF apiVersion \in {"v1", "V1"} THEN "v1" ELSE "v2"
Facade(apiVersion) == IF apiVersion = "v1" THEN "v1" ELSE "v2"

\* apiVersion: string = 'v1'
DefaultApiVersionCurrent(passed) == IF passed = Undefined THEN "v2" ELSE passed
DefaultApiVersion(passed) == IF passed = Undefined THEN "v1" ELSE passed

\* the calls of the exported functions: passed is the argument of the caller,
\* apiVersion the value of the parameter
ReadOps ==
  {[c EXCEPT !.apiVersion = DefaultApiVersion(f)] @@ [passed |-> f] :
      c \in FacadeCalls, f \in Passed}

\* body of the legacy get of a page, parameters of the current one
V1FetchRecordsBodyNextPage(page, where) ==
  JSONStringify([limit |-> PAGE_SIZE, offset |-> page * PAGE_SIZE,
                 include |-> <<"documents", "metadatas">>, where |-> where])
V1FetchRecordsBody(page, where) ==
  JSONStringify([limit |-> PAGE_SIZE, offset |-> (page - 1) * PAGE_SIZE,
                 include |-> <<"documents", "metadatas">>, where |-> where])
V2FetchRecordsParams(page, where) ==
  [limit |-> PAGE_SIZE, offset |-> (page - 1) * PAGE_SIZE,
   include |-> <<"documents", "metadatas">>, where |-> where]

\* get of one record
V1FetchRecordDetailBody(recordId) ==
  JSONStringify([ids |-> <<recordId>>, include |-> <<"documents", "embeddings", "metadatas">>])
V2FetchRecordDetailParamsNoEmbeddings(recordId) ==
  [ids |-> <<recordId>>, include |-> <<"documents", "metadatas">>]
V2FetchRecordDetailParams(recordId) ==
  [ids |-> <<recordId>>, include |-> <<"documents", "embeddings", "metadatas">>]

\* query by vector: the legacy body holds the vector in a batch of one, the
\* client of the current protocol is handed the vector itself
V1QueryBody(queryEmbeddings) ==
  JSONStringify([query_embeddings |-> <<queryEmbeddings>>, n_results |-> QUERY_K,
                 include |-> <<"documents", "embeddings", "metadatas", "distances">>])
V2QueryParams(queryEmbeddings) ==
  [queryEmbeddings |-> queryEmbeddings, nResults |-> QUERY_K,
   include |-> <<"documents", "embeddings", "metadatas", "distances">>]

\* query by id: a get of the one id
V1QueryRecordsTextBody(queryTexts) ==
  JSONStringify([ids |-> <<queryTexts>>, include |-> <<"documents", "embeddings", "metadatas">>])
V2QueryRecordsTextParams(queryTexts) ==
  [ids |-> <<queryTexts>>, include |-> <<"documents", "embeddings", "metadatas">>]

\* count with a filter: a get that includes nothing
V1CountRecordsBodyPaged(where) ==
  JSONStringify([limit |-> PAGE_SIZE, include |-> <<>>, where |-> where])
V1CountRecordsBody(where) == JSONStringify([include |-> <<>>, where |-> where])
V2CountRecordsParams(where) == [include |-> <<>>, where |-> where]

\* if (!where): the count call, which has no body
CountRequest(o) ==
  IF o.where = Undefined
  THEN [call |-> "count", apiVersion |-> Facade(o.apiVersion), body |-> <<>>]
  ELSE [call |-> "get", apiVersion |-> Facade(o.apiVersion),
        body |-> IF Facade(o.apiVersion) = "v1" THEN V1CountRecordsBody(o.where)
                 ELSE V2CountRecordsParams(o.where)]

BuildRequest(o) ==
  CASE o.kind = "fetchCollections" ->
         [call |-> "list", apiVersion |-> Facade(o.apiVersion), body |-> <<>>]
    [] o.kind = "fetchRecords" ->
         [call |-> "get", apiVersion |-> Facade(o.apiVersion),
          body |-> IF Facade(o.apiVersion) = "v1" THEN V1FetchRecordsBody(o.page, o.where)
                   ELSE V2FetchRecordsParams(o.page, o.where)]
    [] o.kind = "fetchRecordDetail" ->
         [call |-> "get", apiVersion |-> Facade(o.apiVersion),
          body |-> IF Facade(o.apiVersion) = "v1" THEN V1FetchRecordDetailBody(o.recordId)
                   ELSE V2FetchRecordDetailParams(o.recordId)]
    [] o.kind = "queryRecords" ->
         [call |-> "query", apiVersion |-> Facade(o.apiVersion),
          body |-> IF Facade(o.apiVersion) = "v1" THEN V1QueryBody(o.queryEmbeddings)
                   ELSE V2QueryParams(o.queryEmbeddings)]
    [] o.kind = "queryRecordsText" ->
         [call |-> "get", apiVersion |-> Facade(o.apiVersion),
          body |-> IF Facade(o.apiVersion) = "v1" THEN V1QueryRecordsTextBody(o.queryTexts)
                   ELSE V2QueryRecordsTextParams(o.queryTexts)]
    [] o.kind = "countRecord" -> CountRequest(o)

\* the backend: the records of the collection, in the order of their ids
Stored == [i \in 1..MaxStored |-> FullRecord(i)]

\* a filter of the model selects the records with an even id
Matches(rec, where) == where = Undefined \/ rec.id % 2 = 0

\* the parallel arrays of an answer: ids, and each included field
Arrays(recs, include) ==
  LET ids == [ids |-> [i \in 1..Len(recs) |-> recs[i].id]]
      docs == IF "documents" \in Range(include)
              THEN [documents |-> [i \in 1..Len(recs) |-> recs[i].document]] ELSE <<>>
      metas == IF "metadatas" \in Range(include)
               THEN [metadatas |-> [i \in 1..Len(recs) |-> recs[i].metadata]] ELSE <<>>
      embs == IF "embeddings" \in Range(include)
              THEN [embeddings |-> [i \in 1..Len(recs) |-> recs[i].embedding]] ELSE <<>>
  IN ids @@ docs @@ metas @@ embs

\* answer of a get: the records selected by ids and where, then offset and limit
GetAnswer(body) ==
  LET ById(rec) == "ids" \notin DOMAIN body \/ rec.id \in Range(body.ids)
      ByWhere(rec) == "where" \notin DOMAIN body \/ Matches(rec, body.where)
      selected == SelectSeq(SelectSeq(Stored, ById), ByWhere)
      from == IF "offset" \in DOMAIN body THEN body.offset + 1 ELSE 1
      to == IF "limit" \in DOMAIN body
            THEN Min(from + body.limit - 1, Len(selected)) ELSE Len(selected)
  IN Arrays(SubSeq(selected, from, to), body.include)

\* answers of a query: the nearest records in one of two rankings, for each
\* vector of the batch, with the position in the ranking as the distance
Ranked(asc, n) ==
  [i \in 1..Min(n, MaxStored) |-> IF asc THEN Stored[i] ELSE Stored[MaxStored + 1 - i]]

QueryAnswer(asc, n, include) ==
  LET a == Arrays(Ranked(asc, n), include)
      dist == IF "distances" \in Range(include)
              THEN [distances |-> <<[i \in 1..Min(n, MaxStored) |-> 100 + i]>>] ELSE <<>>
  IN [f \in DOMAIN a |-> <<a[f]>>] @@ dist

TransportFailure == [failure |-> "TransportError"]
\* the error object of the backend carries the name of the failure
ErrorAnswer == [error |-> "InvalidDimension"]

\* answer of count: the number of records of the collection
CountAnswer == [value |-> MaxStored]

\* a string of a result whose elements may also be objects
Str(s) == [string |-> s]

\* answer of the list call: the collection objects of the legacy protocol, what
\* listCollections of the client answers in the current one
ListAnswer(apiVersion) ==
  IF apiVersion = "v1"
  THEN [collections |-> <<[name |-> "a", id |-> 1], [name |-> "b", id |-> 2]>>]
  ELSE [collections |-> <<Str("a"), Str("b")>>]

\* a call fails or is answered: a list with collections, a count with the
\* number, a get or a query with an error object or with data
Answers(req) ==
  {TransportFailure}
  \cup IF req.call = "list" THEN {ListAnswer(req.apiVersion)}
     ELSE IF req.call = "count" THEN {CountAnswer}
     ELSE {ErrorAnswer} \cup
       IF req.call = "get"
       THEN IF "offset" \in DOMAIN req.body /\ req.body.offset < 0
            THEN {} ELSE {GetAnswer(req.body)}
       ELSE {QueryAnswer(asc,
                              IF req.apiVersion = "v1" THEN req.body.n_results
                              ELSE req.body.nResults,
                              req.body.include) : asc \in BOOLEAN}

\* data.f?.[index] and data.f?.[0][index]
Opt(data, f, index) == IF f \in DOMAIN data THEN data[f][index] ELSE Null
Opt0(data, f, index) == IF f \in DOMAIN data THEN data[f][1][index] ELSE Null

\* if (data.error): the field is there and its string is not empty;
\* response['error'] != null: the field is there
Truthy(data, f) == f \in DOMAIN data /\ data[f] # ""
NotNullish(data, f) == f \in DOMAIN data

Returned(value) == [kind |-> "ok", value |-> value]
Thrown(message) == [kind |-> "error", message |-> message]

\* data.ids.map((id, index) => ({ id, document, metadata })); reading a
\* property of the undefined ids of an error object throws a TypeError
FetchRecordsResult(data) ==
  IF "ids" \notin DOMAIN data THEN Thrown("TypeError")
  ELSE
  Returned([index \in 1..Len(data.ids) |->
              [id |-> data.ids[index],
               document |-> Opt(data, "documents", index),
               metadata |-> Opt(data, "metadatas", index)]])

FetchRecordDetailResultNoThrow(data) ==
  IF "ids" \notin DOMAIN data THEN Thrown("RecordNotFound")
  ELSE Returned([id |-> IF Len(data.ids) = 0 THEN Null ELSE data.ids[1],
                 document |-> IF Len(data.ids) = 0 THEN Null ELSE Opt(data, "documents", 1),
                 metadata |-> IF Len(data.ids) = 0 THEN Null ELSE Opt(data, "metadatas", 1),
                 embedding |-> IF Len(data.ids) = 0 THEN Null ELSE Opt(data, "embeddings", 1)])
\* if (!data.ids || data.ids.length === 0) throw new Error('RecordNotFound')
FetchRecordDetailResult(data) ==
  IF "ids" \notin DOMAIN data \/ Len(data.ids) = 0 THEN Thrown("RecordNotFound")
  ELSE Returned([id |-> data.ids[1],
                 document |-> Opt(data, "documents", 1),
                 metadata |-> Opt(data, "metadatas", 1),
                 embedding |-> Opt(data, "embeddings", 1)])

\* if (response.ids.length === 0) throw new Error('RecordNotFound')
V2FetchRecordDetailResult(response_) ==
  IF "ids" \notin DOMAIN response_ THEN Thrown("TypeError")
  ELSE IF Len(response_.ids) = 0 THEN Thrown("RecordNotFound")
  ELSE Returned([id |-> response_.ids[1],
                 document |-> response_.documents[1],
                 metadata |-> response_.metadatas[1],
                 embedding |-> Opt(response_, "embeddings", 1)])

QueryRecordsTextResultNoDistance(data) ==
  IF Truthy(data, "error") THEN Thrown(data.error)
  ELSE IF Len(data.ids) = 0 THEN Thrown("RecordNotFound")
  ELSE Returned(<<[id |-> data.ids[1],
                   document |-> data.documents[1],
                   metadata |-> data.metadatas[1],
                   embedding |-> Opt(data, "embeddings", 1),
                   distance |-> Null - 1]>>)
\* query by id: the error of an error object, then RecordNotFound for no ids,
\* then the one record with distance 0
QueryRecordsTextResult(data) ==
  IF Truthy(data, "error") THEN Thrown(data.error)
  ELSE IF "ids" \notin DOMAIN data THEN Thrown("TypeError")
  ELSE IF Len(data.ids) = 0 THEN Thrown("RecordNotFound")
  ELSE Returned(<<[id |-> data.ids[1],
                   document |-> data.documents[1],
                   metadata |-> data.metadatas[1],
                   embedding |-> Opt(data, "embeddings", 1),
                   distance |-> 0]>>)

V2QueryRecordsTextResult(response_) ==
  IF NotNullish(response_, "error") THEN Thrown(response_.error)
  ELSE IF "ids" \notin DOMAIN response_ THEN Thrown("TypeError")
  ELSE IF Len(response_.ids) = 0 THEN Thrown("RecordNotFound")
  ELSE Returned(<<[id |-> response_.ids[1],
                   document |-> response_.documents[1],
                   metadata |-> response_.metadatas[1],
                   embedding |-> Opt(response_, "embeddings", 1),
                   distance |-> 0]>>)

\* data.ids[0].map((id, index) => ({ id, document, metadata, embedding, distance }))
QueryRecordsResultShifted(data) ==
  IF Truthy(data, "error") THEN Thrown(data.error)
  ELSE Returned([index \in 1..Len(data.ids[1]) |->
                   [id |-> data.ids[1][index],
                    document |-> data.documents[1][index],
                    metadata |-> data.metadatas[1][index],
                    embedding |-> Opt0(data, "embeddings", index),
                    distance |-> Opt0(data, "distances", Len(data.ids[1]) + 1 - index)]])
QueryRecordsResultErrorIgnored(data) ==
  IF "ids" \notin DOMAIN data THEN Returned(<<>>)
  ELSE Returned([index \in 1..Len(data.ids[1]) |->
                   [id |-> data.ids[1][index],
                    document |-> data.documents[1][index],
                    metadata |-> data.metadatas[1][index],
                    embedding |-> Opt0(data, "embeddings", index),
                    distance |-> Opt0(data, "distances", index)]])
QueryRecordsResult(data) ==
  IF Truthy(data, "error") THEN Thrown(data.error)
  ELSE IF "ids" \notin DOMAIN data THEN Thrown("TypeError")
  ELSE Returned([index \in 1..Len(data.ids[1]) |->
                   [id |-> data.ids[1][index],
                    document |-> data.documents[1][index],
                    metadata |-> data.metadatas[1][index],
                    embedding |-> Opt0(data, "embeddings", index),
                    distance |-> Opt0(data, "distances", index)]])

\* the same mapping in the current facade, behind response['error'] != null
V2QueryRecordsResult(response_) ==
  IF NotNullish(response_, "error") THEN Thrown(response_.error)
  ELSE IF "ids" \notin DOMAIN response_ THEN Thrown("TypeError")
  ELSE Returned([index \in 1..Len(response_.ids[1]) |->
                   [id |-> response_.ids[1][index],
                    document |-> response_.documents[1][index],
                    metadata |-> response_.metadatas[1][index],
                    embedding |-> Opt0(response_, "embeddings", index),
                    distance |-> Opt0(response_, "distances", index)]])

\* the count as answered, or data.ids.length of the filtered get
CountRecordsResult(o, data) ==
  IF o.where = Undefined THEN Returned(data.value)
  ELSE IF "ids" \notin DOMAIN data THEN Thrown("TypeError")
  ELSE Returned(Len(data.ids))

\* what the function of the facade that o.apiVersion selects returns or throws
FacadeResult(o, data) ==
  IF "failure" \in DOMAIN data THEN Thrown(data.failure)
  ELSE CASE o.kind = "fetchCollections" -> Returned(data.collections)
         [] o.kind = "fetchRecords" -> FetchRecordsResult(data)
         [] o.kind = "fetchRecordDetail" ->
              IF Facade(o.apiVersion) = "v1" THEN FetchRecordDetailResult(data)
              ELSE V2FetchRecordDetailResult(data)
         [] o.kind = "queryRecordsText" ->
              IF Facade(o.apiVersion) = "v1" THEN QueryRecordsTextResult(data)
              ELSE V2QueryRecordsTextResult(data)
         [] o.kind = "queryRecords" ->
              IF Facade(o.apiVersion) = "v1" THEN QueryRecordsResult(data)
              ELSE V2QueryRecordsResult(data)
         [] o.kind = "countRecord" -> CountRecordsResult(o, data)

\* collections.map(c => c.name)
NamesOf(collections) == [i \in DOMAIN collections |-> Str(collections[i].name)]

\* the exported function: the outcome of the facade, of which fetchCollections
\* keeps the names when the facade is the legacy one
Handle(o, data) ==
  LET outcome == FacadeResult(o, data)
  IN IF o.kind = "fetchCollections" /\ Facade(o.apiVersion) = "v1" /\ outcome.kind = "ok"
     THEN Returned(NamesOf(outcome.value))
     ELSE outcome

\* the operation is called and issues its backend call
ReadCall ==
  /\ rpc = "idle"
  /\ \E o \in ReadOps :
       /\ rop' = o
       /\ request' = BuildRequest(o)
  /\ rpc' = "wait"
  /\ UNCHANGED <<response, rresult, httpResponse, facadeVars, fetchVars, statusBarVars>>

\* the backend call is answered and the operation returns or throws
ReadRecv ==
  /\ rpc = "wait"
  /\ \E data \in Answers(request) :
       /\ response' = data
       /\ rresult' = Handle(rop, data)
  /\ rpc' = "done"
  /\ UNCHANGED <<rop, request, httpResponse, facadeVars, fetchVars, statusBarVars>>

ReadReturn ==
  /\ rpc = "done"
  /\ rpc' = "idle"
  /\ rop' = NoArgs
  /\ request' = NoParams
  /\ response' = NoAnswer
  /\ rresult' = NoReturn
  /\ UNCHANGED <<httpResponse, facadeVars, fetchVars, statusBarVars>>

NextRead ==
  \/ ReadCall
  \/ ReadRecv
  \/ ReadReturn

SpecRead == InitTransport /\ [][NextRead]_vars

\* ---- the route handler of the records of a collection -------------------------

\* the handler calls one of the exported functions on records
RouteCall ==
  /\ ReadCall
  /\ rop'.kind # "fetchCollections"

\* status of the response for what the call returned or threw
RouteStatusAlways500(outcome) ==
  IF outcome.kind = "ok" THEN 200 ELSE 500
RouteStatus(outcome) ==
  IF outcome.kind = "ok" THEN 200
  ELSE IF outcome.message = "RecordNotFound" THEN 404
  ELSE IF outcome.message = "InvalidDimension" THEN 400
  ELSE 500

\* the JSON response: the result, or the error; a 500 carries the message
RouteResponse(outcome) ==
  LET status == RouteStatus(outcome)
  IN IF status = 200 THEN [status |-> status, value |-> outcome.value]
     ELSE IF status = 500 THEN [status |-> status, error |-> outcome.message]
     ELSE [status |-> status]

\* the call has returned or thrown and the handler responds
RouteRespond ==
  /\ rpc = "done"
  /\ httpResponse' = RouteResponse(rresult)
  /\ rpc' = "responded"
  /\ UNCHANGED <<rop, request, response, rresult, facadeVars, fetchVars, statusBarVars>>

RouteReturn ==
  /\ rpc = "responded"
  /\ rpc' = "idle"
  /\ rop' = NoArgs
  /\ request' = NoParams
  /\ response' = NoAnswer
  /\ rresult' = NoReturn
  /\ httpResponse' = NoHttpResponse
  /\ UNCHANGED <<facadeVars, fetchVars, statusBarVars>>

NextRoute ==
  \/ RouteCall
  \/ ReadRecv
  \/ RouteRespond
  \/ RouteReturn

SpecRoute == InitTransport /\ [][NextRoute]_vars

\* ---- name resolution for several backends --------------------------------

\* tenant and database are strings of the caller
Tenants == {"tenant", "tenant:db"}
Databases == {"db", "db:db"}
Backends ==
  {[connectionString |-> ConnectionString, tenant |-> t, database |-> d] :
     t \in Tenants, d \in Databases}

\* the id a backend gave its collection: no two collections share one
BackendId(b, name) ==
  (IF b.tenant = "tenant" THEN 0 ELSE 4) + (IF b.database = "db" THEN 0 ELSE 2)
    + (IF name = "a" THEN 1 ELSE 2)

\* responses of GET /api/v1/collections?tenant=..&database=..: the array of the
\* collections, and an array that holds the name "a" twice, under two ids
BackendListResponse(b) ==
  <<[name |-> "a", id |-> BackendId(b, "a")], [name |-> "b", id |-> BackendId(b, "b")]>>
BackendListResponses(b) ==
  {BackendListResponse(b),
   <<[name |-> "a", id |-> BackendId(b, "a")], [name |-> "b", id |-> BackendId(b, "b")],
     [name |-> "a", id |-> BackendId(b, "a") + 8]>>}

BackendKey(b, collectionName) ==
  collectionCacheKey(b.connectionString, b.tenant, b.database, collectionName)
BackendKeys == {BackendKey(b, n) : b \in Backends, n \in Names}

\* positions of the array whose collection has key k
Under(b, collections, k) == {i \in DOMAIN collections : BackendKey(b, collections[i].name) = k}
First(positions) == CHOOSE i \in positions : \A j \in positions : i <= j
Last(positions) == CHOOSE i \in positions : \A j \in positions : i >= j

\* for (const c of collections) collectionIdCache.set(key of c.name, {id, timestamp}):
\* a later set of a key replaces an earlier one
BackendCacheAllFirstWins(cache, b, collections, t) ==
  [k \in DOMAIN cache |->
     IF Under(b, collections, k) # {}
     THEN [id |-> collections[First(Under(b, collections, k))].id, timestamp |-> t]
     ELSE cache[k]]
BackendCacheAll(cache, b, collections, t) ==
  [k \in DOMAIN cache |->
     IF Under(b, collections, k) # {}
     THEN [id |-> collections[Last(Under(b, collections, k))].id, timestamp |-> t]
     ELSE cache[k]]

\* collections.find(c => c.name === collectionName): the first of that name
FindLast(collections, name) ==
  LET at == {i \in DOMAIN collections : collections[i].name = name}
  IN IF at = {} THEN NoId ELSE collections[Last(at)].id
Find(collections, name) ==
  LET at == {i \in DOMAIN collections : collections[i].name = name}
  IN IF at = {} THEN NoId ELSE collections[First(at)].id

\* the credentials of the callers
Credentials == {a \in Auths : a.token # "" \/ a.username # ""}

\* v1GetCollectionId up to its await: a fresh entry is returned, else the
\* collections of the backend are listed
V1GetCollectionIdCallOwnEntriesOnly(p) ==
  /\ pc[p] = "idle"
  /\ \E b \in Backends, n \in Names, auth \in Credentials :
       LET cached == collectionIdCache[BackendKey(b, n)]
           age == IF cached = NoEntry THEN -1 ELSE now - cached.timestamp
       IN /\ op' = [op EXCEPT ![p] = [kind |-> "getCollectionId", version |-> "v1",
                                      name |-> n, backend |-> b, auth |-> auth]]
          /\ IF Fresh(cached, now) /\ cachedWith[BackendKey(b, n)] = auth
             THEN /\ collectionId' = [collectionId EXCEPT ![p] = cached.id]
                  /\ resolution' = [resolution EXCEPT ![p] = [src |-> "cache", age |-> age]]
                  /\ result' = [result EXCEPT ![p] = "success"]
                  /\ pc' = [pc EXCEPT ![p] = "done"]
                  /\ UNCHANGED calls
             ELSE /\ resolution' = [resolution EXCEPT ![p] = [src |-> "none", age |-> age]]
                  /\ calls' = [calls EXCEPT ![p] = Issue(<<>>, "list")]
                  /\ pc' = [pc EXCEPT ![p] = "list_wait"]
                  /\ UNCHANGED <<collectionId, result>>
  /\ UNCHANGED <<fetchVars, requestVars, statusBarVars, returnedAt, cachedWith, now, backendVars, cacheVars, records,
                 newCollectionId, snapshot>>
V1GetCollectionIdCall(p) ==
  /\ pc[p] = "idle"
  /\ \E b \in Backends, n \in Names, auth \in Credentials :
       LET cached == collectionIdCache[BackendKey(b, n)]
           age == IF cached = NoEntry THEN -1 ELSE now - cached.timestamp
       IN /\ op' = [op EXCEPT ![p] = [kind |-> "getCollectionId", version |-> "v1",
                                      name |-> n, backend |-> b, auth |-> auth]]
          /\ IF Fresh(cached, now)
             THEN /\ collectionId' = [collectionId EXCEPT ![p] = cached.id]
                  /\ resolution' = [resolution EXCEPT ![p] = [src |-> "cache", age |-> age]]
                  /\ result' = [result EXCEPT ![p] = "success"]
                  /\ pc' = [pc EXCEPT ![p] = "done"]
                  /\ UNCHANGED calls
             ELSE /\ resolution' = [resolution EXCEPT ![p] = [src |-> "none", age |-> age]]
                  /\ calls' = [calls EXCEPT ![p] = Issue(<<>>, "list")]
                  /\ pc' = [pc EXCEPT ![p] = "list_wait"]
                  /\ UNCHANGED <<collectionId, result>>
  /\ UNCHANGED <<fetchVars, requestVars, statusBarVars, returnedAt, cachedWith, now, backendVars, cacheVars, records,
                 newCollectionId, snapshot>>

\* the list response: every collection of it is cached under the key of the
\* backend and its name, and the id of the name is returned
V1GetCollectionIdListRecv(p) ==
  /\ pc[p] = "list_wait"
  /\ \E ok \in BOOLEAN :
       IF ok
       THEN \E collections \in BackendListResponses(op[p].backend) :
               /\ collectionIdCache' =
                    BackendCacheAll(collectionIdCache, op[p].backend, collections, now)
               /\ cachedWith' = [k \in DOMAIN cachedWith |->
                                   IF Under(op[p].backend, collections, k) # {}
                                   THEN op[p].auth ELSE cachedWith[k]]
               /\ collectionId' = [collectionId EXCEPT ![p] = Find(collections, op[p].name)]
               /\ resolution' = [resolution EXCEPT ![p] =
                                   [src |-> "list", age |-> @.age, collections |-> collections]]
               /\ result' = [result EXCEPT ![p] = "success"]
               /\ calls' = [calls EXCEPT ![p] = Settle(@, TRUE)]
       ELSE /\ result' = [result EXCEPT ![p] = "TransportError"]
            /\ calls' = [calls EXCEPT ![p] = Settle(@, FALSE)]
            /\ UNCHANGED <<collectionIdCache, cachedWith, collectionId, resolution>>
  /\ pc' = [pc EXCEPT ![p] = "done"]
  /\ UNCHANGED <<fetchVars, requestVars, statusBarVars, returnedAt, now, backendVars, listedAt, invalidated,
                 op, records, newCollectionId, snapshot>>

InitBackends ==
  /\ InitFetch
  /\ InitRequest
  /\ InitStatusBar(0)
  /\ InitRequests
  /\ now = 0
  /\ collectionIdCache = [k \in BackendKeys |-> NoEntry]
  /\ listedAt = [n \in Names |-> -1]
  /\ invalidated = {}
  /\ returnedAt = [n \in Names |-> -1]
  /\ cachedWith = [k \in BackendKeys |-> NoCredentials]
  /\ colls = [n \in Names |-> NoId]
  /\ store = [i \in 1..MaxId |-> <<>>]
  /\ nextId = 1

\* resolutions for the backends, one after another
NextBackends ==
  \/ V1GetCollectionIdCall(Solo)
  \/ V1GetCollectionIdListRecv(Solo)
  \/ Return(Solo)
  \/ Tick

SpecBackends == InitBackends /\ [][NextBackends]_vars

\* C10: when the first response is a 3xx with a Location, the request is sent
\* once more, to that location, with the method, headers and body of the call,
\* no more than two requests are sent for the call, and a 2xx answer of the
\* location is what the call returns.
C10_RedirectFollowedOnce ==
  (firstResponse.status >= 300 /\ firstResponse.status < 400 /\ firstResponse.location # NoLocation) =>
    /\ Len(wire) = 2
    /\ wire[2].url = firstResponse.location
    /\ wire[2].method = freq.method
    /\ wire[2].headers = v1Headers(freq.auth)
    /\ wire[2].body = freq.body
    /\ fpc = "done" => (fresult.from = 2 /\ (fresult.kind = "json" <=> IsOk(fresult.status)))

IsRedirect(r) == r.status >= 300 /\ r.status < 400 /\ r.location # NoLocation

IsRename(p) == op[p].kind = "updateCollection"
IsPerCollection(p) == op[p].kind \in PerCollectionOps
ListCount(log) == Cardinality({i \in DOMAIN log : log[i].call = "list"})
Has(log, call) == \E i \in DOMAIN log : log[i].call = call
HasOk(log, call) == \E i \in DOMAIN log : log[i].call = call /\ log[i].outcome = "ok"
HasFailed(log, call) == \E i \in DOMAIN log : log[i].call = call /\ log[i].outcome = "failed"

\* a list response that held name n was cached less than the TTL ago
Covered(n) == listedAt[n] >= 0 /\ now - listedAt[n] < CACHE_TTL_MS

\* request p begins a per-collection operation on n and issues a list call for it
ListIssuedFor(p, n) ==
  /\ pc[p] = "idle"
  /\ pc'[p] = "list_wait"
  /\ op'[p].kind \in PerCollectionOps
  /\ op'[p].name = n

\* C1 as stated: a per-collection operation on a name that a list response
\* cached less than 30 s ago held never issues a list call.
C1_NoListWithinTtl ==
  [][\A p \in Procs, n \in Names : ListIssuedFor(p, n) => ~Covered(n)]_vars

\* C1 amended: a per-collection operation on a name that a list response cached
\* less than 30 s ago held issues no list call, unless a rename has deleted the
\* entry of that name since that response was cached.
C1_NoListWithinTtlUnlessInvalidated ==
  [][\A p \in Procs, n \in Names :
       ListIssuedFor(p, n) => ~(Covered(n) /\ n \notin invalidated)]_vars

\* an operation was served from the cache 29 999 ms after the one list response
\* that cached every name
C1_Witness ==
  \E p \in Procs :
    /\ IsPerCollection(p)
    /\ pc[p] = "call_wait"
    /\ resolution[p].src = "cache"
    /\ resolution[p].age = CACHE_TTL_MS - 1
    /\ ~Has(calls[p], "list")
    /\ \A n \in Names : listedAt[n] = 0

\* C2: when the entry of the requested name is 30 000 ms old or older at the
\* resolution, the operation issues exactly one list call, as its first call,
\* and at most the per-collection call after it.
C2_StaleEntryListsOnce ==
  \A p \in Procs :
    (IsPerCollection(p) /\ resolution[p].age >= CACHE_TTL_MS) =>
      /\ ListCount(calls[p]) = 1
      /\ calls[p][1].call = "list"
      /\ Len(calls[p]) <= 2
      /\ (Len(calls[p]) = 2 => calls[p][2].call = CallOf(op[p]) /\ calls[p][1].outcome = "ok")

\* an entry exactly 30 000 ms old was found: list call, then per-collection call
C2_Witness ==
  \E p \in Procs :
    /\ IsPerCollection(p)
    /\ resolution[p].age = CACHE_TTL_MS
    /\ pc[p] = "call_wait"
    /\ Len(calls[p]) = 2

\* C3: an id a resolution returned was read from an entry younger than 30 s or
\* was taken from the list response of that same resolution.
C3_IdFreshOrListed ==
  \A p \in Procs :
    /\ resolution[p].src = "cache" =>
         (resolution[p].age >= 0 /\ resolution[p].age < CACHE_TTL_MS /\ ~Has(calls[p], "list"))
    /\ resolution[p].src = "list" => HasOk(calls[p], "list")
    /\ collectionId[p] # NoId => resolution[p].src \in {"cache", "list"}

\* an id was read from an entry 29 999 ms old
C3_Witness ==
  \E p \in Procs :
    /\ resolution[p].src = "cache"
    /\ resolution[p].age = CACHE_TTL_MS - 1
    /\ collectionId[p] # NoId

\* request p processes a successful list response
ListProcessed(p) ==
  /\ pc[p] \in {"list_wait", "newlist_wait"}
  /\ pc'[p] # pc[p]
  /\ calls'[p][Len(calls[p])].outcome = "ok"

\* C4: a miss issues one list call, and when its response is processed every
\* collection of the response gets an entry under its own name with its id and
\* the current time.
C4_MissCachesAll ==
  [][\A p \in Procs :
       /\ (pc[p] = "idle" /\ pc'[p] = "list_wait") => calls'[p] = Issue(<<>>, "list")
       /\ ListProcessed(p) =>
            \A n \in Names :
              colls[n] # NoId =>
                collectionIdCache'[KeyOf(n)] = [id |-> colls[n], timestamp |-> now]]_vars

\* a list response with two collections was processed after time had passed:
\* both names, the requested one and the other, have an entry with the
\* current time
C4_Witness ==
  /\ now > 0
  /\ \A n \in Names :
       /\ colls[n] # NoId
       /\ collectionIdCache[KeyOf(n)] = [id |-> colls[n], timestamp |-> now]
\* ---- properties of failures ------------------------------------------------------

\* C12: a backend call that failed is the last call of its operation, and the
\* operation has ended with that error: no call is issued after a failure, by no
\* operation (per-collection, delete of a collection, rename).
C12_NoCallAfterFailure ==
  \A p \in Procs :
    \A i \in DOMAIN calls[p] :
      calls[p][i].outcome = "failed" =>
        /\ i = Len(calls[p])
        /\ pc[p] = "done"
        /\ result[p] = "TransportError"

\* request p takes the failure of its per-collection call
CallFailed(p) ==
  /\ IsPerCollection(p)
  /\ pc[p] = "call_wait"
  /\ pc'[p] = "done"
  /\ result'[p] = "TransportError"

\* C13: the failure of the backend call of a per-collection operation changes no
\* entry of the cache, neither that of the targeted name nor any other: ids and
\* timestamps are as before, and what was a hit before is a hit after.
C13_FailedCallKeepsCache ==
  [][\A p \in Procs :
       CallFailed(p) =>
         /\ collectionIdCache' = collectionIdCache
         /\ \A n \in Names :
              Fresh(collectionIdCache'[KeyOf(n)], now') <=> Fresh(collectionIdCache[KeyOf(n)], now)]_vars

\* the call of an operation served from the cache failed while both names were
\* cached; both entries are still there
C13_Witness ==
  \E p \in Procs :
    /\ IsPerCollection(p)
    /\ pc[p] = "done"
    /\ calls[p] = <<[call |-> "get", outcome |-> "failed"]>>
    /\ resolution[p].src = "cache"
    /\ \A n \in Names : Fresh(collectionIdCache[KeyOf(n)], now)

\* C14: when the list response a resolution fetched does not hold the requested
\* name, the operation ends with the error "Collection '<name>' not found" and
\* its only backend call is that list call; when the response holds the name
\* the operation goes on without an error.
C14_AbsentNameNotFound ==
  [][\A p \in Procs :
       /\ (pc[p] = "list_wait" /\ ListProcessed(p) /\ colls[op[p].name] = NoId) =>
            /\ pc'[p] = "done"
            /\ result'[p] = "Collection '" \o op[p].name \o "' not found"
            /\ calls'[p] = <<[call |-> "list", outcome |-> "ok"]>>
       /\ (pc[p] = "list_wait" /\ ListProcessed(p) /\ colls[op[p].name] # NoId) =>
            result'[p] = "none"]_vars

\* an operation on the name the backend does not hold ended with the error
C14_Witness ==
  \E p \in Procs :
    /\ IsPerCollection(p)
    /\ op[p].name = "b"
    /\ colls["b"] = NoId
    /\ pc[p] = "done"
    /\ result[p] = "Collection 'b' not found"
    /\ calls[p] = <<[call |-> "list", outcome |-> "ok"]>>

\* C15: a per-collection operation on a name that fetchCollections returned less
\* than 30 s ago issues no list call.
C15_FetchCollectionsSeedsCache ==
  [][\A p \in Procs, n \in Names :
       ListIssuedFor(p, n) =>
         ~(returnedAt[n] >= 0 /\ now - returnedAt[n] < CACHE_TTL_MS)]_vars

\* request p begins a per-collection operation on n
Begins(p, n) ==
  /\ pc[p] = "idle"
  /\ pc'[p] # "idle"
  /\ op'[p].kind \in PerCollectionOps
  /\ op'[p].name = n

Missing(n) ==
  LET e == collectionIdCache[KeyOf(n)]
  IN e = NoEntry \/ now - e.timestamp >= CACHE_TTL_MS

\* C16: an operation that begins on a name whose entry is missing or stale
\* issues a list call of its own, also while the list call of another request
\* for the same name is pending; the response to either list call lets its
\* operation go on to its per-collection call whatever the other request does.
C16_NoCoalescing ==
  [][\A p \in Procs, n \in Names :
       /\ (Begins(p, n) /\ Missing(n)) =>
            /\ pc'[p] = "list_wait"
            /\ calls'[p] = <<[call |-> "list", outcome |-> "pending"]>>
       /\ (pc[p] = "list_wait" /\ ListProcessed(p) /\ op[p].name = n /\ colls[n] # NoId) =>
            /\ pc'[p] = "call_wait"
            /\ collectionId'[p] = colls[n]
            /\ calls'[p] = <<[call |-> "list", outcome |-> "ok"],
                             [call |-> CallOf(op[p]), outcome |-> "pending"]>>]_vars

\* two requests for the same name, begun at the same time on an empty cache,
\* both succeeded, each after a list call of its own
C16_Witness ==
  /\ now = 0
  /\ op["p1"].name = op["p2"].name
  /\ \A p \in Procs :
       /\ IsPerCollection(p)
       /\ pc[p] = "done"
       /\ result[p] = "success"
       /\ Len(calls[p]) = 2
       /\ calls[p][1] = [call |-> "list", outcome |-> "ok"]
       /\ calls[p][2].outcome = "ok"

\* the entry of name n is a pair the backend's list response gives for n, with a
\* time that has been the clock's
ValidEntry(e, n) ==
  /\ e.id # NoId
  /\ e.id = colls[n]
  /\ e.timestamp \in TimePoints
  /\ e.timestamp <= now

\* C17: with requests interleaved at will, every entry of the cache is a pair
\* (id, timestamp) in which the id is the one a list response gave for the name
\* of the entry; an entry changes only when a request processes its list
\* response, and what that request writes is the pair of that response and the
\* current time, over whatever another request wrote before.
C17_CacheNeverCorrupted ==
  [][collectionIdCache' # collectionIdCache =>
       /\ \E p \in Procs : ListProcessed(p)
       /\ DOMAIN collectionIdCache' = Keys
       /\ \A n \in Names :
            LET old == collectionIdCache[KeyOf(n)]
                new == collectionIdCache'[KeyOf(n)]
            IN /\ new # old => new = [id |-> IdIn(ListResponse, n), timestamp |-> now]
               /\ new # NoEntry => ValidEntry(new, n)]_vars

\* both requests have processed a list response, the later one after time has
\* passed: it has overwritten the entries of both names
C17_Witness ==
  /\ now > 0
  /\ \A p \in Procs : Len(calls[p]) >= 1 /\ calls[p][1] = [call |-> "list", outcome |-> "ok"]
  /\ \E p \in Procs : resolution[p].age >= CACHE_TTL_MS
  /\ \A n \in Names :
       /\ colls[n] # NoId
       /\ collectionIdCache[KeyOf(n)] = [id |-> colls[n], timestamp |-> now]

\* a rename whose create failed after the fetch of the records succeeded
C12_Witness ==
  \E p \in Procs :
    /\ IsRename(p)
    /\ pc[p] = "done"
    /\ Len(records[p].ids) > 0
    /\ Len(calls[p]) >= 2
    /\ calls[p][Len(calls[p])] = [call |-> "create", outcome |-> "failed"]

\* ---- properties of the requests of the reads ----------------------------------

ResultIds == {rresult.value[i].id : i \in DOMAIN rresult.value}

\* C18: fetchRecords asks for limit 20 and offset (page - 1) * 20 in both
\* facades (offset 40 for page 3, 980 for page 50); a page from 1 on returns
\* exactly the records at positions (page - 1) * 20 + 1 .. page * 20 of the
\* collection, so that consecutive pages are adjacent and do not overlap.
C18_PageOffsets ==
  (rop.kind = "fetchRecords" /\ rpc # "idle") =>
    /\ request.call = "get"
    /\ request.body.limit = 20
    /\ request.body.offset = (rop.page - 1) * 20
    /\ rop.page = 3 => request.body.offset = 40
    /\ rop.page = 50 => request.body.offset = 980
    /\ (rpc = "done" /\ rresult.kind = "ok" /\ rop.where = Undefined /\ rop.page >= 1) =>
         ResultIds = {i \in 1..MaxStored : i > (rop.page - 1) * 20 /\ i <= rop.page * 20}

\* page 3 of a collection of more than 40 records, asked through the current
\* facade: the records from the 41st on
C18_Witness ==
  /\ rop.kind = "fetchRecords"
  /\ rop.apiVersion = "v2"
  /\ rop.page = 3
  /\ rpc = "done"
  /\ rresult.kind = "ok"
  /\ Len(rresult.value) = MaxStored - 40
  /\ rresult.value[1].id = 41

\* C19: the include set of fetchRecords is exactly documents and metadatas (no
\* embeddings) and its records carry none; fetchRecordDetail includes
\* embeddings and asks for the one requested id, whose record it returns.
C19_EmbeddingsOnlyInDetail ==
  rpc # "idle" =>
    /\ rop.kind = "fetchRecords" =>
         /\ Range(request.body.include) = {"documents", "metadatas"}
         /\ "ids" \notin DOMAIN request.body
         /\ "embeddings" \notin DOMAIN response
    /\ rop.kind = "fetchRecordDetail" =>
         /\ request.call = "get"
         /\ "embeddings" \in Range(request.body.include)
         /\ request.body.ids = <<rop.recordId>>
         /\ (rpc = "done" /\ rresult.kind = "ok") =>
              /\ rresult.value.id = rop.recordId
              /\ rresult.value.embedding = EmbOf(rop.recordId)

\* the detail of the last record, with its embedding, through the current facade
C19_Witness ==
  /\ rop.kind = "fetchRecordDetail"
  /\ rop.apiVersion = "v2"
  /\ rop.recordId = MaxStored
  /\ rpc = "done"
  /\ rresult = [kind |-> "ok",
                 value |-> [id |-> MaxStored, document |-> DocOf(MaxStored),
                            metadata |-> MetaOf(MaxStored), embedding |-> EmbOf(MaxStored)]]

\* the records of a query are those of the first batch element of the answer,
\* each with the id, document, metadata, embedding and distance of its index
QueryResultByIndex ==
  (rpc = "done" /\ rresult.kind = "ok") =>
    /\ Len(response.ids) = 1
    /\ Len(rresult.value) = Len(response.ids[1])
    /\ Len(rresult.value) <= 10
    /\ \A i \in DOMAIN rresult.value :
         /\ rresult.value[i] = [id |-> response.ids[1][i],
                                 document |-> response.documents[1][i],
                                 metadata |-> response.metadatas[1][i],
                                 embedding |-> response.embeddings[1][i],
                                 distance |-> response.distances[1][i]]
         /\ rresult.value[i].document = DocOf(rresult.value[i].id)
         /\ rresult.value[i].embedding = EmbOf(rresult.value[i].id)

QueryAsksTenWithDistances ==
  /\ request.call = "query"
  /\ (IF rop.apiVersion = "v1" THEN request.body.n_results ELSE request.body.nResults) = 10
  /\ "distances" \in Range(request.body.include)

\* C20 as stated: in either version the request of queryRecords holds the vector
\* in a batch of one element, asks for 10 results with distances, and the
\* records returned are those of the first batch element, index by index.
C20_QueryWrapsVector ==
  (rop.kind = "queryRecords" /\ rpc # "idle") =>
    LET batch == IF rop.apiVersion = "v1" THEN request.body.query_embeddings
                 ELSE request.body.queryEmbeddings
    IN /\ Len(batch) = 1
       /\ batch[1] = rop.queryEmbeddings
       /\ QueryAsksTenWithDistances
       /\ QueryResultByIndex

\* C20 amended: the legacy request holds the vector in a batch of one element,
\* the current facade hands the vector itself to its client; both ask for 10
\* results with distances and return the records of the first batch element,
\* index by index.
C20_QueryShape ==
  (rop.kind = "queryRecords" /\ rpc # "idle") =>
    /\ rop.apiVersion = "v1" =>
         /\ Len(request.body.query_embeddings) = 1
         /\ request.body.query_embeddings[1] = rop.queryEmbeddings
    /\ rop.apiVersion # "v1" => request.body.queryEmbeddings = rop.queryEmbeddings
    /\ QueryAsksTenWithDistances
    /\ QueryResultByIndex

\* a legacy query answered with ten records in descending ranking
C20_Witness ==
  /\ rop.kind = "queryRecords"
  /\ rop.apiVersion = "v1"
  /\ rpc = "done"
  /\ rresult.kind = "ok"
  /\ Len(rresult.value) = 10
  /\ rresult.value[1].id = MaxStored
  /\ rresult.value[1].distance = 101

IdScoped == rop.kind \in {"fetchRecordDetail", "queryRecordsText"}
AskedId == IF rop.kind = "fetchRecordDetail" THEN rop.recordId ELSE rop.queryTexts
StoredIds == {Stored[i].id : i \in DOMAIN Stored}

\* C21: when the get of fetchRecordDetail or of queryRecordsText is answered
\* with no record, in either facade, the operation throws RecordNotFound and
\* returns nothing; this is the outcome for an id the collection does not hold.
C21_NoMatchIsRecordNotFound ==
  (IdScoped /\ rpc = "done" /\ "ids" \in DOMAIN response) =>
    /\ Len(response.ids) = 0 => rresult = [kind |-> "error", message |-> "RecordNotFound"]
    /\ AskedId \notin StoredIds => rresult = [kind |-> "error", message |-> "RecordNotFound"]
    /\ rresult.kind = "ok" => (Len(response.ids) = 1 /\ AskedId \in StoredIds)

\* the detail of an id the collection does not hold, legacy facade
C21_Witness ==
  /\ rop.kind = "fetchRecordDetail"
  /\ rop.apiVersion = "v1"
  /\ rop.recordId = MaxStored + 1
  /\ rpc = "done"
  /\ "ids" \in DOMAIN response
  /\ response.ids = <<>>
  /\ rresult = [kind |-> "error", message |-> "RecordNotFound"]

\* C22: queryRecordsText is a get of ids = [value] (no query call, no vector, no
\* limit); when the collection holds that id it returns a sequence of exactly
\* one record, with the id, document, metadata and embedding of that record
\* and distance 0.
C22_QueryByIdExactLookup ==
  (rop.kind = "queryRecordsText" /\ rpc # "idle") =>
    /\ request.call = "get"
    /\ request.body.ids = <<rop.queryTexts>>
    /\ DOMAIN request.body = {"ids", "include"}
    /\ (rpc = "done" /\ "ids" \in DOMAIN response /\ rop.queryTexts \in StoredIds) =>
         rresult = [kind |-> "ok",
                    value |-> <<[id |-> rop.queryTexts,
                                 document |-> DocOf(rop.queryTexts),
                                 metadata |-> MetaOf(rop.queryTexts),
                                 embedding |-> EmbOf(rop.queryTexts),
                                 distance |-> 0]>>]

\* the last record of the collection looked up by its id, current facade
C22_Witness ==
  /\ rop.kind = "queryRecordsText"
  /\ rop.apiVersion = "v2"
  /\ rop.queryTexts = MaxStored
  /\ rpc = "done"
  /\ rresult.kind = "ok"
  /\ Len(rresult.value) = 1
  /\ rresult.value[1].id = MaxStored
  /\ rresult.value[1].distance = 0

C24_CountByCallOrFilteredGet ==
  (rop.kind = "countRecord" /\ rpc # "idle") =>
    /\ rop.where = Undefined =>
         /\ request.call = "count"
         /\ DOMAIN request.body = {}
         /\ (rpc = "done" /\ "value" \in DOMAIN response) =>
              rresult = [kind |-> "ok", value |-> response.value]
    /\ rop.where # Undefined =>
         /\ request.call = "get"
         /\ DOMAIN request.body = {"include", "where"}
         /\ request.body.include = <<>>
         /\ request.body.where = rop.where
         /\ (rpc = "done" /\ "ids" \in DOMAIN response) =>
              /\ DOMAIN response = {"ids"}
              /\ rresult = [kind |-> "ok", value |-> Len(response.ids)]
              /\ rresult.value = Cardinality({i \in StoredIds : i % 2 = 0})

\* a filtered count through the legacy facade: the records with an even id
C24_Witness ==
  /\ rop.kind = "countRecord"
  /\ rop.apiVersion = "v1"
  /\ rop.where = "where"
  /\ rpc = "done"
  /\ rresult = [kind |-> "ok", value |-> MaxStored \div 2]

\* the facade the argument of the caller selects
SelectedFacade == IF rop.passed \in {Undefined, "v1"} THEN "v1" ELSE "v2"

\* the call of the facade that the exported function makes
ForwardedCall ==
  [f \in DOMAIN rop \ {"passed"} |-> IF f = "apiVersion" THEN SelectedFacade ELSE rop[f]]

\* C25 as stated: the outcome of every call of an exported function is the
\* outcome of the call of the selected facade.
C25_OutcomeIsFacadeOutcome ==
  rpc = "done" => rresult = FacadeResult(ForwardedCall, response)

\* C25: an exported function calls the facade its version argument selects, the
\* legacy one when the argument is left out, with the arguments it was given;
\* its outcome is the outcome of that call, except that fetchCollections on the
\* legacy facade returns the names of the collections the facade returned.
C25_DispatchForwards ==
  rpc # "idle" =>
    /\ request = BuildRequest(ForwardedCall)
    /\ request.apiVersion = SelectedFacade
    /\ rpc = "done" =>
         IF rop.kind = "fetchCollections" /\ SelectedFacade = "v1"
              /\ "collections" \in DOMAIN response
         THEN rresult = [kind |-> "ok",
                         value |-> [i \in DOMAIN response.collections |->
                                      [string |-> response.collections[i].name]]]
         ELSE rresult = FacadeResult(ForwardedCall, response)

\* fetchCollections without version argument has returned the names of the
\* collections the legacy facade listed
C25_Witness ==
  /\ rop.kind = "fetchCollections"
  /\ rop.passed = Undefined
  /\ rpc = "done"
  /\ request = [call |-> "list", apiVersion |-> "v1", body |-> <<>>]
  /\ response.collections[1] = [name |-> "a", id |-> 1]
  /\ rresult = [kind |-> "ok", value |-> <<[string |-> "a"], [string |-> "b"]>>]

\* C26 as stated: every request of a legacy call carries the Bearer header
\* whenever the auth type is token, the Basic header whenever it is basic, and
\* no Authorization header when the connection is unauthenticated.
C26_HeaderByAuthType ==
  \A i \in DOMAIN wire :
    wire[i].headers.Authorization =
      CASE freq.auth.authType = "token" -> "Bearer " \o freq.auth.token
        [] freq.auth.authType = "basic" ->
             "Basic base64(" \o freq.auth.username \o ":" \o freq.auth.password \o ")"
        [] OTHER -> ""

\* C26: every request of a legacy call, the one to the location of a redirect
\* included, carries 'Bearer <token>' when the auth type is token and the token
\* is not empty, 'Basic <base64(user:pass)>' when the auth type is basic and
\* the user name is not empty, and no Authorization header otherwise.
C26_AuthorizationHeader ==
  \A i \in DOMAIN wire :
    /\ (freq.auth.authType = "token" /\ freq.auth.token # "") =>
         wire[i].headers.Authorization = "Bearer " \o freq.auth.token
    /\ (freq.auth.authType = "basic" /\ freq.auth.username # "") =>
         wire[i].headers.Authorization =
           "Basic base64(" \o freq.auth.username \o ":" \o freq.auth.password \o ")"
    /\ ~ \/ freq.auth.authType = "token" /\ freq.auth.token # ""
         \/ freq.auth.authType = "basic" /\ freq.auth.username # ""
       => wire[i].headers.Authorization = ""

\* a call with basic credentials was redirected: both requests carry the header
C26_Witness ==
  /\ fpc = "done"
  /\ freq.auth = [authType |-> "basic", token |-> "", username |-> "usr", password |-> "pwd"]
  /\ Len(wire) = 2
  /\ wire[1].headers.Authorization = "Basic base64(usr:pwd)"
  /\ wire[2].headers.Authorization = "Basic base64(usr:pwd)"

\* C27: two resolutions whose (endpoint, tenant, database, name) tuples differ
\* never use the same cache entry: an id that a resolution takes from the cache
\* is the id of its name in its own backend, and the list response of a
\* resolution leaves the entries of every other backend as they are.
C27_BackendsNeverCollide ==
  [][\A p \in Procs :
       /\ (pc'[p] = "done" /\ resolution'[p].src = "cache") =>
            collectionId'[p] = BackendId(op'[p].backend, op'[p].name)
       /\ (pc[p] = "list_wait" /\ pc'[p] = "done") =>
            \A b \in Backends \ {op[p].backend}, n \in Names :
               collectionIdCache'[BackendKey(b, n)] = collectionIdCache[BackendKey(b, n)]]_vars

\* the id the resolution of request p returned and the entry of its key
OwnEntry(p) == collectionIdCache[BackendKey(op[p].backend, op[p].name)]
NamesOnce(collections) ==
  \A i, j \in DOMAIN collections : collections[i].name = collections[j].name => i = j
Missed(p) ==
  /\ op[p].kind = "getCollectionId"
  /\ pc[p] = "done"
  /\ result[p] = "success"
  /\ resolution[p].src = "list"

\* C36 as stated: the id a resolution returns after a miss is the id it stored
\* in the cache for its name, whatever the list response.
C36_MissReturnsCachedId ==
  \A p \in Procs : Missed(p) => collectionId[p] = OwnEntry(p).id

\* C36: when no name occurs twice in the list response, the id a resolution
\* returns after a miss is the id it stored in the cache for its name; when
\* the name occurs more than once, the id returned is that of the first
\* occurrence and the id stored that of the last.
C36_MissReturnsCachedIdOfUniqueName ==
  \A p \in Procs :
    Missed(p) =>
      LET collections == resolution[p].collections
          at == {i \in DOMAIN collections : collections[i].name = op[p].name}
      IN /\ at # {}
         /\ NamesOnce(collections) => collectionId[p] = OwnEntry(p).id
         /\ \A i \in at :
              /\ (\A j \in at : i <= j) => collectionId[p] = collections[i].id
              /\ (\A j \in at : i >= j) => OwnEntry(p).id = collections[i].id

\* a miss on a name the list response holds once: returned and cached id agree
C36_Witness ==
  /\ Missed(Solo)
  /\ op[Solo].name = "a"
  /\ Len(resolution[Solo].collections) = 2
  /\ collectionId[Solo] = BackendId(op[Solo].backend, "a")
  /\ OwnEntry(Solo).id = collectionId[Solo]

\* C28: deleteCollection of the legacy facade issues one backend call, the
\* DELETE on the name, without resolving the name and without a list call, and
\* returns success exactly when that call succeeded; every other per-collection
\* operation has the id of its name, from a fresh cache entry or from a list
\* call that succeeded, before it issues its first call on the collection.
C28_DeleteByNameOthersResolve ==
  \A p \in Procs :
    /\ op[p].kind = "deleteCollection" =>
         /\ Len(calls[p]) = 1
         /\ calls[p][1].call = "delete_collection"
         /\ resolution[p] = NoResolution
         /\ collectionId[p] = NoId
         /\ pc[p] = "done" => (result[p] = "success" <=> calls[p][1].outcome = "ok")
    /\ (op[p].kind \in PerCollectionOps \cup {"updateCollection"} /\ calls[p] # <<>>) =>
         IF calls[p][1].call = "list"
         THEN Len(calls[p]) >= 2 =>
                /\ calls[p][1].outcome = "ok"
                /\ collectionId[p] # NoId
                /\ calls[p][2].call = CallOf(op[p])
                /\ Len(calls[p]) = 2 => resolution[p].src = "list"
         ELSE /\ calls[p][1].call = CallOf(op[p])
              /\ collectionId[p] # NoId
              /\ Len(calls[p]) = 1 => resolution[p].src = "cache"

\* a collection was deleted by its name with one call
C28_Witness ==
  /\ op[Solo].kind = "deleteCollection"
  /\ op[Solo].name = "a"
  /\ pc[Solo] = "done"
  /\ calls[Solo] = <<[call |-> "delete_collection", outcome |-> "ok"]>>
  /\ result[Solo] = "success"
  /\ colls["a"] = NoId

\* C29: no step of an operation of the current-protocol facade changes the
\* name-resolution cache or takes an id from it; a rename through that facade
\* leaves the entry of the old name where it is.
C29_V2LeavesCache ==
  [][\A p \in Procs :
       (op'[p].version = "v2" /\ op'[p].kind # "none") =>
         /\ collectionIdCache' = collectionIdCache
         /\ resolution'[p] = NoResolution]_vars

\* a rename through the current facade succeeded and the entry of the old name,
\* cached by an earlier legacy call, is still there
C29_Witness ==
  /\ op[Renamer].kind = "updateCollection"
  /\ op[Renamer].version = "v2"
  /\ op[Renamer].name # op[Renamer].newName
  /\ pc[Renamer] = "done"
  /\ result[Renamer] = "success"
  /\ collectionIdCache[KeyOf(op[Renamer].name)] # NoEntry

\* C30: the response of the records route handler has status 200 when the call
\* of the data layer returned, 404 when it threw RecordNotFound, 400 when it
\* threw InvalidDimension and 500, with the message of the error in the body,
\* when it threw anything else.
C30_ErrorsMappedToStatus ==
  rpc = "responded" =>
    /\ rresult.kind = "ok" => httpResponse.status = 200
    /\ rresult.kind = "error" =>
         /\ rresult.message = "RecordNotFound" => httpResponse.status = 404
         /\ rresult.message = "InvalidDimension" => httpResponse.status = 400
         /\ rresult.message \notin {"RecordNotFound", "InvalidDimension"} =>
              /\ httpResponse.status = 500
              /\ httpResponse.error = rresult.message

\* a query for an id the collection does not hold was answered with 404
C30_Witness ==
  /\ rpc = "responded"
  /\ rop.kind = "queryRecordsText"
  /\ rop.queryTexts = MaxStored + 1
  /\ rresult = [kind |-> "error", message |-> "RecordNotFound"]
  /\ httpResponse.status = 404

\* ---- properties of the rename ------------------------------------------------------

\* records of the collection of that name in a backend (none when it is absent)
ContentOf(cs, st, name) == IF cs[name] = NoId THEN <<>> ELSE st[cs[name]]
OldBefore(p) == ContentOf(snapshot[p].colls, snapshot[p].store, op[p].name)
OldNow(p) == ContentOf(colls, store, op[p].name)
NewNow(p) == ContentOf(colls, store, op[p].newName)
RecordSet(s) == {s[i] : i \in DOMAIN s}
IdSet(s) == {s[i].id : i \in DOMAIN s}
Succeeded(p) == IsRename(p) /\ pc[p] = "done" /\ result[p] = "success"

\* C5: after a successful legacy rename the cache holds no entry that maps the
\* old name to the old collection's id.
C5_OldNameNotCached ==
  \A p \in Procs :
    (Succeeded(p) /\ op[p].version = "v1") =>
      LET e == collectionIdCache[KeyOf(op[p].name)]
      IN ~(e # NoEntry /\ e.id = collectionId[p])

\* C6: after a successful rename, in either version, the new collection holds
\* exactly the records the old one held (id, document, metadata, embedding) and
\* the old collection exists no more.
C6_RenameCopiesRecords ==
  \A p \in Procs :
    Succeeded(p) =>
      /\ colls[op[p].name] = NoId
      /\ colls[op[p].newName] # NoId
      /\ Len(NewNow(p)) = Len(OldBefore(p))
      /\ RecordSet(NewNow(p)) = RecordSet(OldBefore(p))

\* C7: a rename that failed at the fetch of the records or at the create has
\* issued no add and no delete request, and the old collection and its records
\* are as they were when the rename started.
C7_EarlyFailureLeavesOldUntouched ==
  \A p \in Procs :
    (IsRename(p) /\ (HasFailed(calls[p], "get") \/ HasFailed(calls[p], "create"))) =>
      /\ ~Has(calls[p], "add")
      /\ ~Has(calls[p], "delete_collection")
      /\ colls[op[p].name] = snapshot[p].colls[op[p].name]
      /\ OldNow(p) = OldBefore(p)
      /\ pc[p] = "done"
      /\ result[p] = "TransportError"

\* the create failed for a collection with records, in the current protocol
C7_Witness ==
  \E p \in Procs :
    /\ IsRename(p)
    /\ op[p].version = "v2"
    /\ HasFailed(calls[p], "create")
    /\ Len(OldBefore(p)) = MaxRecords
    /\ pc[p] = "done"

StepCalls == {"get", "create", "add", "delete_collection"}
CountOf(log, call) == Cardinality({i \in DOMAIN log : log[i].call = call})

\* C8: a rename that failed at the bulk insert or at the delete of the old
\* collection leaves both collections present, the old one with all its records
\* and the new one with what was inserted; no step was issued twice and the
\* error is the outcome of the rename.
C8_LateFailureKeepsBoth ==
  \A p \in Procs :
    (IsRename(p) /\ (HasFailed(calls[p], "add") \/ HasFailed(calls[p], "delete_collection"))) =>
      /\ pc[p] = "done"
      /\ result[p] = "TransportError"
      /\ colls[op[p].name] # NoId
      /\ colls[op[p].name] = snapshot[p].colls[op[p].name]
      /\ OldNow(p) = OldBefore(p)
      /\ colls[op[p].newName] # NoId
      /\ colls[op[p].newName] # colls[op[p].name]
      /\ HasOk(calls[p], "add") => IdSet(NewNow(p)) = IdSet(OldBefore(p))
      /\ \A c \in StepCalls : CountOf(calls[p], c) <= 1
      /\ calls[p][Len(calls[p])].outcome = "failed"

\* the delete of the old collection failed after the records were inserted
C8_Witness ==
  \E p \in Procs :
    /\ IsRename(p)
    /\ HasOk(calls[p], "add")
    /\ HasFailed(calls[p], "delete_collection")
    /\ Len(NewNow(p)) = MaxRecords

IsPrefix(s, t) == Len(s) <= Len(t) /\ \A i \in 1..Len(s) : s[i] = t[i]
IsStep(e) == e.call \in StepCalls
StepsIssued(log) == SelectSeq(log, IsStep)

\* C9: the steps of a rename are issued in the order fetch, create, insert,
\* delete, each only after all calls before it succeeded (the insert is left out
\* when nothing was fetched); the old collection is never gone before the insert
\* succeeded, and every fetched record id is in the old or the new collection.
C9_RenameOrder ==
  \A p \in Procs :
    IsRename(p) =>
      LET steps == StepsIssued(calls[p])
          kinds == [i \in 1..Len(steps) |-> steps[i].call]
      IN /\ \/ IsPrefix(kinds, <<"get", "create", "add", "delete_collection">>)
            \/ /\ IsPrefix(kinds, <<"get", "create", "delete_collection">>)
               /\ Len(records[p].ids) = 0
         /\ \A i \in 1..(Len(calls[p]) - 1) : calls[p][i].outcome = "ok"
         /\ (colls[op[p].name] = NoId /\ snapshot[p].colls[op[p].name] # NoId) =>
              (HasOk(calls[p], "add") \/ Len(OldBefore(p)) = 0)
         /\ HasOk(calls[p], "get") =>
              {records[p].ids[i] : i \in DOMAIN records[p].ids}
                \subseteq (IdSet(OldNow(p)) \cup IdSet(NewNow(p)))

\* a legacy rename of a collection with records ran through all four steps
C9_Witness ==
  \E p \in Procs :
    /\ Succeeded(p)
    /\ op[p].version = "v1"
    /\ Len(records[p].ids) = MaxRecords
    /\ CountOf(calls[p], "add") = 1
    /\ colls[op[p].name] = NoId

\* C31: the legacy rename removes the cache entry of the old name only after
\* its deletion of the old collection has succeeded.
C31_InvalidationLast ==
  [][\A p \in Procs :
       (/\ op[p].kind = "updateCollection"
        /\ op[p].version = "v1"
        /\ collectionIdCache[KeyOf(op[p].name)] # NoEntry
        /\ collectionIdCache'[KeyOf(op[p].name)] = NoEntry)
         => HasOk(calls'[p], "delete_collection")]_vars


\* C32: the id the legacy rename uses for the bulk insert is the id of the
\* collection it created, taken from a list call issued after the create and
\* never from a cache entry of the new name.
C32_NewNameResolvedFresh ==
  \A p \in Procs :
    (op[p].kind = "updateCollection" /\ op[p].version = "v1"
       /\ newCollectionId[p] # NoId) =>
      /\ resolution[p].src = "list"
      /\ newCollectionId[p] = colls[op[p].newName]


\* C33: an entry leaves the cache only when a legacy rename, after its create,
\* invalidates its old name; any other change of an entry is its replacement by
\* the entry of a list response received now. An expired entry stays.
C33_NoEviction ==
  [][\A k \in DOMAIN collectionIdCache :
       collectionIdCache'[k] # collectionIdCache[k] =>
         IF collectionIdCache'[k] = NoEntry
         THEN \E p \in Procs : /\ op[p].kind = "updateCollection"
                                /\ op[p].version = "v1"
                                /\ pc[p] = "create_wait"
                                /\ k = KeyOf(op[p].name)
         ELSE /\ collectionIdCache'[k].timestamp = now
              /\ \E p \in Procs : /\ pc[p] \in {"list_wait", "newlist_wait"}
                                   /\ HasOk(calls'[p], "list")]_vars

\* an entry that has expired is still in the map when a later request is done
C33_Witness ==
  /\ pc[Solo] = "done"
  /\ \E k \in DOMAIN collectionIdCache :
       /\ collectionIdCache[k] # NoEntry
       /\ now - collectionIdCache[k].timestamp >= CACHE_TTL_MS


\* C34: the ids, documents, embeddings and metadatas the rename of the current
\* facade passes to the bulk insert have one length, and position i of each
\* belongs to record ids[i] of the old collection.
C34_V2AddArraysAligned ==
  \A p \in Procs :
    (op[p].kind = "updateCollection" /\ op[p].version = "v2" /\ pc[p] = "v2_add_wait") =>
      LET params == V2AddParams(records[p])
          old == store[collectionId[p]]
      IN /\ Len(params.documents) = Len(params.ids)
         /\ Len(params.embeddings) = Len(params.ids)
         /\ Len(params.metadatas) = Len(params.ids)
         /\ Len(old) = Len(params.ids)
         /\ \A i \in 1..Len(params.ids) :
              /\ old[i].id = params.ids[i]
              /\ old[i].document = params.documents[i]
              /\ old[i].embedding = params.embeddings[i]
              /\ old[i].metadata = params.metadatas[i]


\* C35: no step of deleteCollection, in either version, changes the cache; a
\* per-collection operation that begins while the entry of its name is fresh
\* takes the id of the entry and issues no list call, also when the collection
\* of that name has been deleted.
C35_DeleteCollectionKeepsCache ==
  [][\A p \in Procs :
       /\ (op[p].kind = "deleteCollection" \/ op'[p].kind = "deleteCollection") =>
            collectionIdCache' = collectionIdCache
       /\ (pc[p] = "idle" /\ op'[p].kind \in PerCollectionOps
             /\ Fresh(collectionIdCache[KeyOf(op'[p].name)], now)) =>
            /\ collectionId'[p] = collectionIdCache[KeyOf(op'[p].name)].id
            /\ calls'[p] = <<[call |-> CallOf(op'[p]), outcome |-> "pending"]>>]_vars

\* a call on a deleted collection's name goes to the id of the deleted
\* collection, taken from the entry the deletion left in the cache
C35_Witness ==
  /\ op[Solo].kind = "fetchRecords"
  /\ op[Solo].name = "a"
  /\ colls["a"] = NoId
  /\ pc[Solo] = "call_wait"
  /\ resolution[Solo].src = "cache"
  /\ collectionId[Solo] = 1
  /\ collectionIdCache[KeyOf("a")].id = 1
  /\ calls[Solo] = <<[call |-> "get", outcome |-> "pending"]>>


\* the name a resolution of request p is after
Resolved(p) == IF pc[p] = "newlist_wait" THEN op[p].newName ELSE op[p].name

\* C37: when a resolution ends with CollectionNotFound, every collection of the
\* list response has been cached with the time of the response and every other
\* entry, that of the missing name included, is as it was; when the list call
\* fails, the cache is as it was.
C37_NotFoundStillCaches ==
  [][\A p \in Procs :
       (pc[p] \in {"list_wait", "newlist_wait"} /\ pc'[p] = "done") =>
         IF result'[p] = CollectionNotFound(Resolved(p))
         THEN /\ colls[Resolved(p)] = NoId
              /\ \A n \in Names :
                   collectionIdCache'[KeyOf(n)] =
                     IF colls[n] # NoId THEN [id |-> colls[n], timestamp |-> now]
                     ELSE collectionIdCache[KeyOf(n)]
         ELSE /\ result'[p] = "TransportError"
              /\ collectionIdCache' = collectionIdCache]_vars

\* b was not found: its expired entry is still there, a was cached anew
C37_Witness ==
  /\ pc[Solo] = "done"
  /\ op[Solo].name = "b"
  /\ result[Solo] = "Collection 'b' not found"
  /\ collectionIdCache[KeyOf("b")] # NoEntry
  /\ now - collectionIdCache[KeyOf("b")].timestamp >= CACHE_TTL_MS
  /\ collectionIdCache[KeyOf("a")] = [id |-> 1, timestamp |-> now]


\* C38: a resolution that finds a fresh entry under its key returns the id of
\* the entry and issues no list call, whatever its credentials and whatever
\* the credentials of the request that cached the entry.
C38_HitIgnoresCredentials ==
  [][\A p \in Procs :
       (pc[p] = "idle" /\ op'[p].kind = "getCollectionId"
          /\ Fresh(collectionIdCache[BackendKey(op'[p].backend, op'[p].name)], now)) =>
         /\ pc'[p] = "done"
         /\ collectionId'[p] = collectionIdCache[BackendKey(op'[p].backend, op'[p].name)].id
         /\ calls'[p] = <<>>]_vars

\* a request got, without a list call, the id that a request with other
\* credentials had cached
C38_Witness ==
  /\ op[Solo].kind = "getCollectionId"
  /\ pc[Solo] = "done"
  /\ resolution[Solo].src = "cache"
  /\ calls[Solo] = <<>>
  /\ cachedWith[BackendKey(op[Solo].backend, op[Solo].name)] \in Credentials \ {op[Solo].auth}
  /\ collectionId[Solo] = BackendId(op[Solo].backend, op[Solo].name)


\* C39: a call of an exported function with a version argument other than the
\* string 'v1' is carried out by the current facade, with the request and the
\* outcome of a call with 'v2'; every call issues the one request of one of
\* the two facades.
C39_OtherVersionsToCurrentFacade ==
  rpc # "idle" =>
    /\ request.apiVersion \in {"v1", "v2"}
    /\ request.call \in {"list", "get", "query", "count"}
    /\ rop.passed \notin {Undefined, "v1"} =>
         LET asV2 == [f \in DOMAIN rop \ {"passed"} |->
                        IF f = "apiVersion" THEN "v2" ELSE rop[f]]
         IN /\ request.apiVersion = "v2"
            /\ request = BuildRequest(asV2)
            /\ rpc = "done" => rresult = FacadeResult(asV2, response)

\* a query with version 'V1' was carried out by the current facade
C39_Witness ==
  /\ rop.kind = "queryRecords"
  /\ rop.passed = "V1"
  /\ rpc = "done"
  /\ request.apiVersion = "v2"
  /\ request.body.queryEmbeddings = rop.queryEmbeddings
  /\ rresult.kind = "ok"


\* ---- the status bar of the record page --------------------------------------

MaxTotal == 65           \* records of the collection the status bar is shown for

STATUS_BAR_PAGE_SIZE == 20

Max(a, b) == IF a > b THEN a ELSE b
Ceil(a, b) == (a + b - 1) \div b

\* the answer of the records route for a page: the records of the page and the
\* count of the collection, or an error
QueryResults(page) ==
  {[total |-> stored,
    records |-> Min(STATUS_BAR_PAGE_SIZE,
                    Max(0, stored - (page - 1) * STATUS_BAR_PAGE_SIZE))],
   [error |-> "Error"]}

\* queryResult && !('error' in queryResult) ? queryResult.total : 0
total == IF "total" \in DOMAIN queryResult THEN queryResult.total ELSE 0
recordCount == IF "total" \in DOMAIN queryResult THEN queryResult.records ELSE 0
totalPages == Max(1, Ceil(total, STATUS_BAR_PAGE_SIZE))

\* disabled={currentPage <= 1}
PreviousDisabled == currentPage <= 1

\* disabled={currentPage >= totalPages}
NextDisabledPastLast == currentPage > totalPages
NextDisabled == currentPage >= totalPages

\* the query key holds the page: after a page change the data is undefined until
\* the fetch settles, or is the cached answer when the page was fetched before
DataOf(page) == {NoQueryResult} \cup {r \in QueryResults(page) : "total" \in DOMAIN r}

\* onClick={() => setCurrentPage(p => Math.max(1, p - 1))}
PreviousClick ==
  /\ ~PreviousDisabled
  /\ currentPage' = Max(1, currentPage - 1)
  /\ queryResult' \in DataOf(currentPage')
  /\ UNCHANGED <<stored, facadeVars, fetchVars, requestVars>>

\* onClick={() => setCurrentPage(p => Math.min(totalPages, p + 1))}
NextClick ==
  /\ ~NextDisabled
  /\ currentPage' = Min(totalPages, currentPage + 1)
  /\ queryResult' \in DataOf(currentPage')
  /\ UNCHANGED <<stored, facadeVars, fetchVars, requestVars>>

\* the fetch of the current page settles
QuerySettled ==
  /\ queryResult = NoQueryResult
  /\ queryResult' \in QueryResults(currentPage)
  /\ UNCHANGED <<stored, currentPage, facadeVars, fetchVars, requestVars>>

InitPager ==
  /\ InitFetch
  /\ InitRequest
  /\ InitRequests
  /\ InitCache
  /\ colls = [n \in Names |-> IF n = "a" THEN 1 ELSE NoId]
  /\ store = [i \in 1..MaxId |-> <<>>]
  /\ nextId = 2
  /\ \E n \in 0..MaxTotal : InitStatusBar(n)

NextPager ==
  \/ PreviousClick
  \/ NextClick
  \/ QuerySettled

SpecPager == InitPager /\ [][NextPager]_vars

\* the pages of the collection the status bar is shown for
LastPage == Max(1, Ceil(stored, STATUS_BAR_PAGE_SIZE))

====
